---- MODULE Spec2Model ----
(***************************************************************************)
(* Segwit v0 output descriptors of elements-miniscript: wsh(miniscript),   *)
(* wsh(sortedmulti) and wpkh, as implemented in src/descriptor/segwitv0.rs. *)
(*                                                                         *)
(* Strings are sequences of one-character strings.  Scripts are sequences  *)
(* of bytes in which a run of data bytes (a key, a hash) is one symbolic   *)
(* blob of known length.  Hash functions are collision free: a hash is the *)
(* term naming its preimage.                                               *)
(***************************************************************************)
EXTENDS Integers, Sequences, FiniteSets, TLC

VARIABLES op, arg, ret, desc, iter

vars == <<op, arg, ret, desc, iter>>

(***************************************************************************)
(* Bounds of the explored inputs.                                          *)
(***************************************************************************)
NumKeys == 2        \* distinct curve points the keys are drawn from
MaxNodes == 3       \* size of the miniscript fragments that are enumerated
MaxLock == 1        \* largest argument of older() that is enumerated
MaxMultiKeys == 2   \* longest key list of multi() / sortedmulti()

(***************************************************************************)
(* Results and errors.                                                     *)
(***************************************************************************)
Ok(v) == [ok |-> TRUE, val |-> v]

Error(kind, info) == [kind |-> kind, info |-> info]

Err(kind) == [ok |-> FALSE, err |-> Error(kind, <<>>)]

ErrInfo(kind, info) == [ok |-> FALSE, err |-> Error(kind, info)]

\* the ? operator: an Err result is returned as it is, an Ok value goes on to F
Try(r, F(_)) == IF ~r.ok THEN r ELSE F(r.val)

None == [none |-> TRUE]

(***************************************************************************)
(* Generic sequence helpers.                                               *)
(***************************************************************************)
\* F applied to the value of v: v is evaluated once, then bound
Apply(F(_), v) == CHOOSE r \in {F(x) : x \in {v}} : TRUE

RECURSIVE Concat(_)
Concat(ss) == IF ss = <<>> THEN <<>> ELSE Head(ss) \o Concat(Tail(ss))

\* the first index at or after i where s holds ch, or 0
IndexOf(s, ch, i) ==
    IF \E j \in i..Len(s) : s[j] = ch
    THEN CHOOSE j \in i..Len(s) : s[j] = ch /\ \A h \in i..(j - 1) : s[h] # ch
    ELSE 0

Digits == <<"0", "1", "2", "3", "4", "5", "6", "7", "8", "9">>

RECURSIVE NumToString(_)
NumToString(n) ==
    IF n < 10 THEN <<Digits[n + 1]>>
    ELSE NumToString(n \div 10) \o <<Digits[(n % 10) + 1]>>

(***************************************************************************)
(* Descriptor checksum (descriptor/checksum.rs).                           *)
(* The running value c is 40 bits wide; it is kept as eight 5-bit symbols, *)
(* most significant first.                                                 *)
(***************************************************************************)
ELMTS_STR == <<"e", "l">>

\* position 92 is the grave accent, which a string literal cannot hold here
INPUT_CHARSET ==
    << "0", "1", "2", "3", "4", "5", "6", "7", "8", "9", "(", ")",
       "[", "]", ",", "'", "/", "*", "a", "b", "c", "d", "e", "f",
       "g", "h", "@", ":", "$", "%", "{", "}", "I", "J", "K", "L",
       "M", "N", "O", "P", "Q", "R", "S", "T", "U", "V", "W", "X",
       "Y", "Z", "&", "+", "-", ".", ";", "<", "=", ">", "?", "!",
       "^", "_", "|", "~", "i", "j", "k", "l", "m", "n", "o", "p",
       "q", "r", "s", "t", "u", "v", "w", "x", "y", "z", "A", "B",
       "C", "D", "E", "F", "G", "H", "grave", "#", "\"", "\\", " " >>

CHECKSUM_CHARSET ==
    << "q", "p", "z", "r", "y", "9", "x", "8", "g", "f", "2", "t",
       "v", "d", "w", "0", "s", "3", "j", "n", "5", "4", "k", "h",
       "c", "e", "6", "m", "u", "a", "7", "l" >>

\* 0xf5dee51989, 0xa9fdca3312, 0x1bab10e32d, 0x3706b1677a, 0xe8f18d57b7
GENERATOR ==
    << <<30, 23, 15, 14, 10, 6, 12, 9>>,
       <<21, 7, 30, 28, 20, 12, 24, 18>>,
       <<3, 14, 21, 17, 1, 24, 25, 13>>,
       <<6, 28, 3, 11, 2, 25, 27, 26>>,
       <<29, 3, 24, 24, 26, 21, 29, 23>> >>

\* the position of each character in INPUT_CHARSET, from 0
InputPos ==
    [ch \in {INPUT_CHARSET[i] : i \in 1..Len(INPUT_CHARSET)} |->
        (CHOOSE i \in 1..Len(INPUT_CHARSET) : INPUT_CHARSET[i] = ch) - 1]

RECURSIVE XorBits(_, _, _)
XorBits(a, b, n) ==
    IF n = 0 THEN 0
    ELSE ((a + b) % 2) + 2 * XorBits(a \div 2, b \div 2, n - 1)

Xor5 == [a \in 0..31 |-> [b \in 0..31 |-> XorBits(a, b, 5)]]

XorSyms(x, y) ==
    <<Xor5[x[1]][y[1]], Xor5[x[2]][y[2]], Xor5[x[3]][y[3]], Xor5[x[4]][y[4]],
      Xor5[x[5]][y[5]], Xor5[x[6]][y[6]], Xor5[x[7]][y[7]], Xor5[x[8]][y[8]]>>

Bit(v, i) == (v \div (2 ^ i)) % 2

poly_mod(c, val) ==
    LET c0 == c[1]
        G1(x) == IF Bit(c0, 0) = 1 THEN XorSyms(x, GENERATOR[1]) ELSE x
        G2(x) == IF Bit(c0, 1) = 1 THEN XorSyms(x, GENERATOR[2]) ELSE x
        G3(x) == IF Bit(c0, 2) = 1 THEN XorSyms(x, GENERATOR[3]) ELSE x
        G4(x) == IF Bit(c0, 3) = 1 THEN XorSyms(x, GENERATOR[4]) ELSE x
        G5(x) == IF Bit(c0, 4) = 1 THEN XorSyms(x, GENERATOR[5]) ELSE x
    IN  Apply(G5, Apply(G4, Apply(G3, Apply(G2, Apply(G1,
            <<c[2], c[3], c[4], c[5], c[6], c[7], c[8], val>>)))))

PolyModZero(c) == poly_mod(c, 0)

RECURSIVE ChecksumFinal(_, _)
ChecksumFinal(c, j) ==
    IF j = 0 THEN c ELSE ChecksumFinal(Apply(PolyModZero, c), j - 1)

\* one character of the loop of desc_checksum: st = <<c, cls, clscount>> is
\* the running value and the pending character-class group
ChecksumStep(st, ch) ==
    IF ch \notin DOMAIN InputPos THEN <<>>
    ELSE
        LET pos == InputPos[ch]
            cls1 == st[2] * 3 + (pos \div 32)
            Group(c1) ==
                IF st[3] + 1 = 3 THEN <<poly_mod(c1, cls1), 0, 0>>
                ELSE <<c1, cls1, st[3] + 1>>
        IN  Apply(Group, poly_mod(st[1], pos % 32))

\* the loop over the characters lo..hi of s, from the state st; <<>> once a
\* character outside INPUT_CHARSET was met
RECURSIVE ChecksumLoop(_, _, _, _)
ChecksumLoop(s, lo, hi, st) ==
    IF lo > hi THEN st
    ELSE IF lo = hi THEN ChecksumStep(st, s[lo])
    ELSE
        LET mid == (lo + hi) \div 2
            Rest(left) ==
                IF left = <<>> THEN <<>> ELSE ChecksumLoop(s, mid + 1, hi, left)
        IN  Apply(Rest, ChecksumLoop(s, lo, mid, st))

DescChecksumOf(s) ==
    LET Finish(st) ==
            IF st = <<>> THEN Err("BadDescriptor")
            ELSE
                LET Symbols(c) ==
                        LET x == [c EXCEPT ![8] = Xor5[c[8]][1]] IN
                        Ok(<<CHECKSUM_CHARSET[x[1] + 1], CHECKSUM_CHARSET[x[2] + 1],
                             CHECKSUM_CHARSET[x[3] + 1], CHECKSUM_CHARSET[x[4] + 1],
                             CHECKSUM_CHARSET[x[5] + 1], CHECKSUM_CHARSET[x[6] + 1],
                             CHECKSUM_CHARSET[x[7] + 1], CHECKSUM_CHARSET[x[8] + 1]>>)
                IN  Apply(Symbols,
                          ChecksumFinal(IF st[3] > 0 THEN poly_mod(st[1], st[2])
                                        ELSE st[1], 8))
    IN  Apply(Finish,
              ChecksumLoop(s, 1, Len(s), <<<<0, 0, 0, 0, 0, 0, 0, 1>>, 0, 0>>))

desc_checksum(s) == Apply(DescChecksumOf, s)

\* on success the descriptor body without the checksum
verify_checksum(s) ==
    LET h == IndexOf(s, "#", 1) IN
    IF h = 0 THEN Ok(s)
    ELSE
        LET desc_str == SubSeq(s, 1, h - 1)
            checksum_str == SubSeq(s, h + 1, Len(s))
            expected_sum == desc_checksum(desc_str)
        IN  IF ~expected_sum.ok THEN expected_sum
            ELSE IF checksum_str # expected_sum.val THEN Err("BadChecksum")
            ELSE Ok(desc_str)

(***************************************************************************)
(* Expression trees (expression.rs): name(arg,arg,...)                     *)
(***************************************************************************)
Tree(name, args) == [name |-> name, args |-> args]

\* index of the first of ( , ) at or after i, or 0
FindDelim(s, i) ==
    LET D == {"(", ",", ")"} IN
    IF \E j \in i..Len(s) : s[j] \in D
    THEN CHOOSE j \in i..Len(s) : s[j] \in D /\ \A h \in i..(j - 1) : s[h] \notin D
    ELSE 0

\* parses one tree at the front of sl; on success [tree, rest]
RECURSIVE from_slice(_)
RECURSIVE from_slice_args(_, _)
from_slice(sl) ==
    LET n == FindDelim(sl, 1) IN
    IF n = 0 THEN Ok([tree |-> Tree(sl, <<>>), rest |-> <<>>])
    ELSE IF sl[n] \in {",", ")"} THEN
        Ok([tree |-> Tree(SubSeq(sl, 1, n - 1), <<>>),
            rest |-> SubSeq(sl, n, Len(sl))])
    ELSE
        LET r == from_slice_args(SubSeq(sl, n + 1, Len(sl)), <<>>) IN
        IF ~r.ok THEN r
        ELSE Ok([tree |-> Tree(SubSeq(sl, 1, n - 1), r.val.args),
                 rest |-> r.val.rest])

from_slice_args(sl, args) ==
    LET a == from_slice(sl) IN
    IF ~a.ok THEN a
    ELSE
        LET new_sl == a.val.rest
            args1 == Append(args, a.val.tree)
        IN  IF new_sl = <<>> THEN Err("Unexpected")
            ELSE IF new_sl[1] = "," THEN from_slice_args(Tail(new_sl), args1)
            ELSE IF new_sl[1] = ")" THEN Ok([args |-> args1, rest |-> Tail(new_sl)])
            ELSE Err("Unexpected")

TreeFromStr(s) ==
    LET r == from_slice(s) IN
    IF ~r.ok THEN r
    ELSE IF r.val.rest = <<>> THEN Ok(r.val.tree)
    ELSE Err("Unexpected")

\* expression::terminal: a leaf converted by convert, anything else an error
IsLeaf(t) == t.args = <<>>

(***************************************************************************)
(* Public keys (the key capability; bitcoin::PublicKey as the instance).   *)
(* A key is a curve point x and a serialization form.  Its string form is  *)
(* the hex of its serialization: 02<x> compressed, 04<x><y> uncompressed;  *)
(* a coordinate is one hex digit wide here.                                *)
(***************************************************************************)
Pk(x, compressed) == [x |-> x, compressed |-> compressed]

KeyDigits == <<"a", "b", "c", "d", "e", "f">>

is_uncompressed(pk) == ~pk.compressed

PkToString(pk) ==
    IF pk.compressed THEN <<"0", "2", KeyDigits[pk.x]>>
    ELSE <<"0", "4", KeyDigits[pk.x], KeyDigits[pk.x]>>

PkFromStr(s) ==
    IF /\ Len(s) = 3
       /\ s[1] = "0" /\ s[2] = "2"
       /\ IndexOf(KeyDigits, s[3], 1) # 0
    THEN Ok([x |-> IndexOf(KeyDigits, s[3], 1), compressed |-> TRUE])
    ELSE IF /\ Len(s) = 4
            /\ s[1] = "0" /\ s[2] = "4"
            /\ IndexOf(KeyDigits, s[3], 1) # 0
            /\ s[4] = s[3]
    THEN Ok([x |-> IndexOf(KeyDigits, s[3], 1), compressed |-> FALSE])
    ELSE Err("Unexpected")

\* length of the serialized key
PkSerializedLen(pk) == IF pk.compressed THEN 33 ELSE 65

\* Segwitv0::pk_len: the key with its push opcode
pk_len(pk) == IF is_uncompressed(pk) THEN 66 ELSE 34

\* order of the serialized keys: the form byte (02 < 04), then x
PkLess(p, q) ==
    \/ p.compressed /\ ~q.compressed
    \/ p.compressed = q.compressed /\ p.x < q.x

(***************************************************************************)
(* Script bytes.  An item is one opcode byte or one blob of data bytes.    *)
(***************************************************************************)
Op(n) == [op |-> n]

Data(term, len) == [data |-> term, len |-> len]

IsOp(it) == "op" \in DOMAIN it

RECURSIVE ScriptLen(_)
ScriptLen(sc) ==
    IF sc = <<>> THEN 0
    ELSE (IF IsOp(Head(sc)) THEN 1 ELSE Head(sc).len) + ScriptLen(Tail(sc))

PkBytes(pk) == Data([pk |-> pk], PkSerializedLen(pk))

Hash160(blob) == Data([hash160 |-> blob], 20)

Sha256(sc) == Data([sha256 |-> sc], 32)

OP_0 == 0
OP_PUSHNUM_1 == 81
OP_IF == 99
OP_ELSE == 103
OP_ENDIF == 104
OP_VERIFY == 105
OP_DUP == 118
OP_EQUAL == 135
OP_EQUALVERIFY == 136
OP_HASH160 == 169
OP_CHECKSIG == 172
OP_CHECKSIGVERIFY == 173
OP_CHECKMULTISIG == 174
OP_CHECKMULTISIGVERIFY == 175
OP_CSV == 178

\* script::Builder::push_slice for a blob shorter than 76 bytes
PushSlice(blob) == <<Op(blob.len), blob>>

\* script::Builder::push_int for 1 <= n < 2^15
PushInt(n) ==
    IF n <= 16 THEN <<Op(OP_PUSHNUM_1 - 1 + n)>>
    ELSE IF n < 128 THEN <<Op(1), Op(n)>>
    ELSE <<Op(2), Op(n % 256), Op(n \div 256)>>

script_num_size(n) ==
    IF n <= 16 THEN 1
    ELSE IF n < 128 THEN 2
    ELSE IF n < 32768 THEN 3
    ELSE IF n < 8388608 THEN 4
    ELSE 5

varint_len(n) ==
    IF n <= 252 THEN 1
    ELSE IF n <= 65535 THEN 3
    ELSE 5

(***************************************************************************)
(* Miniscript fragments (miniscript/astelem.rs, miniscript/types).         *)
(* A fragment is [node, k, pks, subs]: k is the threshold of multi or the  *)
(* argument of older, pks the keys, subs the children.  The fragment kinds *)
(* modelled are 0, 1, pk_k, older, multi, the wrappers c: and v:, and_v    *)
(* and or_i, with the sugar pk(K) = c:pk_k(K), t:X = and_v(X,1),           *)
(* l:X = or_i(0,X) and u:X = or_i(X,0).                                    *)
(***************************************************************************)
Frag(node, k, pks, subs) == [node |-> node, k |-> k, pks |-> pks, subs |-> subs]

False == Frag("0", 0, <<>>, <<>>)
True == Frag("1", 0, <<>>, <<>>)
PkK(pk) == Frag("pk_k", 0, <<pk>>, <<>>)
Older(n) == Frag("older", n, <<>>, <<>>)
Multi(k, pks) == Frag("multi", k, pks, <<>>)
Check(x) == Frag("c", 0, <<>>, <<x>>)
Verify(x) == Frag("v", 0, <<>>, <<x>>)
AndV(x, y) == Frag("and_v", 0, <<>>, <<x, y>>)
OrI(x, y) == Frag("or_i", 0, <<>>, <<x, y>>)

MAX_PUBKEYS_PER_MULTISIG == 20
MAX_SCRIPT_SIZE == 10000

\* the type of a fragment: base B/V/K/W, correctness flags z o n d u,
\* malleability flags s f e m
Ty(base, z, o, n, d, u, s, f, e, m) ==
    [base |-> base, z |-> z, o |-> o, n |-> n, d |-> d, u |-> u,
     s |-> s, f |-> f, e |-> e, m |-> m]

\* Type::type_check: the type of the fragment, or the type error of the
\* first ill-typed node in post-order
RECURSIVE type_check(_)
type_check(ms) ==
    LET T == TRUE
        F == FALSE
    IN
    CASE ms.node = "0" -> Ok(Ty("B", T, F, F, T, T, T, F, T, T))
      [] ms.node = "1" -> Ok(Ty("B", T, F, F, F, T, F, T, F, T))
      [] ms.node = "pk_k" -> Ok(Ty("K", F, T, T, T, T, T, F, T, T))
      [] ms.node = "older" ->
            IF ms.k = 0 \/ ms.k > 2147483647 THEN Err("TypeCheck")
            ELSE Ok(Ty("B", T, F, F, F, F, F, T, F, T))
      [] ms.node = "multi" ->
            IF ms.k = 0 \/ ms.k > Len(ms.pks) THEN Err("MultisigKeys")
            ELSE Ok(Ty("B", F, F, T, T, T, T, F, T, T))
      [] ms.node = "c" ->
            LET x == type_check(ms.subs[1]) IN
            IF ~x.ok THEN x
            ELSE IF x.val.base # "K" THEN Err("TypeCheck")
            ELSE Ok(Ty("B", x.val.z, x.val.o, x.val.n, x.val.d, T,
                       T, x.val.f, x.val.e, x.val.m))
      [] ms.node = "v" ->
            LET x == type_check(ms.subs[1]) IN
            IF ~x.ok THEN x
            ELSE IF x.val.base # "B" THEN Err("TypeCheck")
            ELSE Ok(Ty("V", x.val.z, x.val.o, x.val.n, F, F,
                       x.val.s, T, F, x.val.m))
      [] ms.node = "and_v" ->
            LET x == type_check(ms.subs[1])
                y == type_check(ms.subs[2])
            IN
            IF ~x.ok THEN x
            ELSE IF ~y.ok THEN y
            ELSE IF x.val.base # "V" \/ y.val.base \notin {"B", "K", "V"}
            THEN Err("TypeCheck")
            ELSE Ok(Ty(y.val.base,
                       x.val.z /\ y.val.z,
                       (x.val.z /\ y.val.o) \/ (x.val.o /\ y.val.z),
                       x.val.n \/ (x.val.z /\ y.val.n),
                       F, y.val.u,
                       x.val.s \/ y.val.s,
                       y.val.f \/ x.val.s,
                       F,
                       x.val.m /\ y.val.m))
      [] ms.node = "or_i" ->
            LET x == type_check(ms.subs[1])
                y == type_check(ms.subs[2])
            IN
            IF ~x.ok THEN x
            ELSE IF ~y.ok THEN y
            ELSE IF x.val.base # y.val.base \/ x.val.base \notin {"B", "K", "V"}
            THEN Err("TypeCheck")
            ELSE Ok(Ty(x.val.base,
                       F, x.val.z /\ y.val.z, F,
                       x.val.d \/ y.val.d,
                       x.val.u /\ y.val.u,
                       x.val.s /\ y.val.s,
                       x.val.f /\ y.val.f,
                       (x.val.e /\ y.val.f) \/ (x.val.f /\ y.val.e),
                       x.val.m /\ y.val.m /\ (x.val.s \/ y.val.s)))

\* an absent maximum (Option::None) of the satisfaction sizes
NoSat == -1

OptAdd(a, b) == IF a = NoSat \/ b = NoSat THEN NoSat ELSE a + b

OptMax(a, b) == IF a >= b THEN a ELSE b

RECURSIVE SumPkLen(_)
SumPkLen(pks) == IF pks = <<>> THEN 0 ELSE pk_len(Head(pks)) + SumPkLen(Tail(pks))

\* ExtData::type_check: script size, whether the last opcode takes a free
\* VERIFY, and the largest satisfaction (witness elements, witness bytes)
RECURSIVE ext_data(_)
ext_data(ms) ==
    LET E(size, hfv, elems, bytes) ==
            [pk_cost |-> size, has_free_verify |-> hfv,
             max_sat_witness_elems |-> elems, max_sat_size |-> bytes]
    IN
    CASE ms.node = "0" -> E(1, FALSE, NoSat, NoSat)
      [] ms.node = "1" -> E(1, FALSE, 0, 0)
      [] ms.node = "pk_k" -> E(pk_len(ms.pks[1]), FALSE, 1, 73)
      [] ms.node = "older" -> E(script_num_size(ms.k) + 1, FALSE, 0, 0)
      [] ms.node = "multi" ->
            E(script_num_size(ms.k) + 1 + script_num_size(Len(ms.pks))
                + SumPkLen(ms.pks),
              TRUE, ms.k + 1, 1 + 73 * ms.k)
      [] ms.node = "c" ->
            LET x == ext_data(ms.subs[1]) IN
            E(x.pk_cost + 1, TRUE, x.max_sat_witness_elems, x.max_sat_size)
      [] ms.node = "v" ->
            LET x == ext_data(ms.subs[1]) IN
            E(x.pk_cost + (IF x.has_free_verify THEN 0 ELSE 1), FALSE,
              x.max_sat_witness_elems, x.max_sat_size)
      [] ms.node = "and_v" ->
            LET x == ext_data(ms.subs[1])
                y == ext_data(ms.subs[2])
            IN  E(x.pk_cost + y.pk_cost, y.has_free_verify,
                  OptAdd(x.max_sat_witness_elems, y.max_sat_witness_elems),
                  OptAdd(x.max_sat_size, y.max_sat_size))
      [] ms.node = "or_i" ->
            LET x == ext_data(ms.subs[1])
                y == ext_data(ms.subs[2])
            IN  E(x.pk_cost + y.pk_cost + 3, FALSE,
                  OptMax(OptAdd(x.max_sat_witness_elems, 1),
                         OptAdd(y.max_sat_witness_elems, 1)),
                  OptMax(OptAdd(x.max_sat_size, 2),
                         OptAdd(y.max_sat_size, 1)))

RECURSIVE FirstUncompressed(_)
FirstUncompressed(pks) ==
    IF pks = <<>> THEN <<>>
    ELSE IF is_uncompressed(Head(pks)) THEN <<Head(pks)>>
    ELSE FirstUncompressed(Tail(pks))

\* Segwitv0::check_global_consensus_validity, on the node just built
check_global_consensus_validity(ms) ==
    LET u == FirstUncompressed(ms.pks) IN
    IF ext_data(ms).pk_cost > MAX_SCRIPT_SIZE
    THEN Err("ContextError.MaxWitnessScriptSizeExceeded")
    ELSE IF ms.node = "multi" /\ Len(ms.pks) > MAX_PUBKEYS_PER_MULTISIG
    THEN Err("ContextError.CheckMultiSigLimitExceeded")
    ELSE IF u # <<>>
    THEN ErrInfo("ContextError.CompressedOnly", PkToString(u[1]))
    ELSE Ok(ms)

\* Miniscript::from_ast: the typed constructor of a fragment whose children
\* are fragments already
from_ast(ms) ==
    LET t == type_check(ms) IN
    IF ~t.ok THEN t ELSE check_global_consensus_validity(ms)

\* the fragments that exist as Miniscript<Pk, Segwitv0> values: every node
\* went through from_ast
RECURSIVE IsMiniscript(_)
IsMiniscript(ms) ==
    /\ \A i \in 1..Len(ms.subs) : IsMiniscript(ms.subs[i])
    /\ from_ast(ms).ok

(***************************************************************************)
(* String form of a fragment (impl Display for Terminal).                  *)
(***************************************************************************)
\* Terminal::wrap_char: the wrapper letter and the wrapped fragment
wrap_char(ms) ==
    CASE ms.node \in {"c", "v"} -> <<ms.node, ms.subs[1]>>
      [] ms.node = "and_v" /\ ms.subs[2] = True -> <<"t", ms.subs[1]>>
      [] ms.node = "or_i" /\ ms.subs[2] = False -> <<"u", ms.subs[1]>>
      [] ms.node = "or_i" /\ ms.subs[1] = False -> <<"l", ms.subs[2]>>
      [] OTHER -> <<>>

RECURSIVE JoinComma(_)
JoinComma(ss) ==
    IF ss = <<>> THEN <<>>
    ELSE IF Len(ss) = 1 THEN ss[1]
    ELSE ss[1] \o <<",">> \o JoinComma(Tail(ss))

Call(name, args) == name \o <<"(">> \o JoinComma(args) \o <<")">>

RECURSIVE MsToString(_)
MsToString(ms) ==
    LET w == wrap_char(ms) IN
    IF w # <<>> THEN
        IF w[1] = "c" /\ w[2].node = "pk_k"
        THEN Call(<<"p", "k">>, <<PkToString(w[2].pks[1])>>)
        ELSE
            LET ww == wrap_char(w[2])
                colon == \/ ww = <<>>
                         \/ ww[1] = "c" /\ ww[2].node = "pk_k"
            IN  <<w[1]>> \o (IF colon THEN <<":">> ELSE <<>>) \o MsToString(w[2])
    ELSE
        CASE ms.node \in {"0", "1"} -> <<ms.node>>
          [] ms.node = "pk_k" ->
                Call(<<"p", "k", "_", "k">>, <<PkToString(ms.pks[1])>>)
          [] ms.node = "older" ->
                Call(<<"o", "l", "d", "e", "r">>, <<NumToString(ms.k)>>)
          [] ms.node = "multi" ->
                Call(<<"m", "u", "l", "t", "i">>,
                     <<NumToString(ms.k)>>
                        \o [i \in 1..Len(ms.pks) |-> PkToString(ms.pks[i])])
          [] ms.node = "and_v" ->
                Call(<<"a", "n", "d", "_", "v">>,
                     <<MsToString(ms.subs[1]), MsToString(ms.subs[2])>>)
          [] ms.node = "or_i" ->
                Call(<<"o", "r", "_", "i">>,
                     <<MsToString(ms.subs[1]), MsToString(ms.subs[2])>>)

(***************************************************************************)
(* Parsing a fragment from an expression tree (Miniscript::from_tree).     *)
(***************************************************************************)
\* expression::parse_num; numbers of more than nine digits are outside the
\* modelled range
RECURSIVE DigitsValue(_, _)
DigitsValue(s, acc) ==
    IF s = <<>> THEN acc
    ELSE DigitsValue(Tail(s), acc * 10 + IndexOf(Digits, Head(s), 1) - 1)

parse_num(s) ==
    IF \/ s = <<>>
       \/ Len(s) > 9
       \/ \E i \in 1..Len(s) : IndexOf(Digits, s[i], 1) = 0
       \/ Len(s) > 1 /\ s[1] = "0"
    THEN Err("Unexpected")
    ELSE Ok(DigitsValue(s, 0))

\* expression::terminal: a leaf converted by the given conversion
TerminalPk(t) == IF t.args = <<>> THEN PkFromStr(t.name) ELSE Err("Unexpected")

TerminalNum(t) == IF t.args = <<>> THEN parse_num(t.name) ELSE Err("Unexpected")

\* the keys of the trees ts, or the error of the first that is not a key
RECURSIVE TerminalPks(_, _)
TerminalPks(ts, acc) ==
    IF ts = <<>> THEN Ok(acc)
    ELSE
        LET p == TerminalPk(Head(ts)) IN
        IF ~p.ok THEN p ELSE TerminalPks(Tail(ts), Append(acc, p.val))

\* str::split(':')
RECURSIVE SplitColon(_, _)
SplitColon(s, cur) ==
    IF s = <<>> THEN <<cur>>
    ELSE IF Head(s) = ":" THEN <<cur>> \o SplitColon(Tail(s), <<>>)
    ELSE SplitColon(Tail(s), Append(cur, Head(s)))

\* applies the wrapper letters right to left to the fragment unwrapped
RECURSIVE ApplyWrappers(_, _)
ApplyWrappers(frag_wrap, unwrapped) ==
    IF frag_wrap = <<>> THEN Ok(unwrapped)
    ELSE
        LET ch == frag_wrap[Len(frag_wrap)]
            rest == SubSeq(frag_wrap, 1, Len(frag_wrap) - 1)
            sub == from_ast(unwrapped)
        IN
        IF ch \notin {"c", "v", "t", "l", "u"} THEN Err("UnknownWrapper")
        ELSE IF ch = "l" /\ unwrapped = False THEN Err("LikelyFalse")
        ELSE IF ~sub.ok THEN sub
        ELSE ApplyWrappers(rest,
                CASE ch = "c" -> Check(unwrapped)
                  [] ch = "v" -> Verify(unwrapped)
                  [] ch = "t" -> AndV(unwrapped, True)
                  [] ch = "l" -> OrI(False, unwrapped)
                  [] ch = "u" -> OrI(unwrapped, False))

RECURSIVE MsFromTree(_)
MsFromTree(top) ==
    LET parts == SplitColon(top.name, <<>>)
        PK == <<"p", "k">>
        n == Len(top.args)
        \* the fragment name and the wrappers, pk(K) standing for c:pk_k(K)
        name == parts[Len(parts)]
        frag_name == IF name = PK THEN <<"p", "k", "_", "k">> ELSE name
        wrap == IF Len(parts) = 2 THEN parts[1] ELSE <<>>
        frag_wrap == IF name = PK THEN Append(wrap, "c") ELSE wrap
        unwrapped ==
            CASE frag_name = <<"p", "k", "_", "k">> /\ n = 1 ->
                    LET p == TerminalPk(top.args[1]) IN
                    IF ~p.ok THEN p ELSE Ok(PkK(p.val))
              [] frag_name = <<"o", "l", "d", "e", "r">> /\ n = 1 ->
                    LET x == TerminalNum(top.args[1]) IN
                    IF ~x.ok THEN x ELSE Ok(Older(x.val))
              [] frag_name = <<"0">> /\ n = 0 -> Ok(False)
              [] frag_name = <<"1">> /\ n = 0 -> Ok(True)
              [] frag_name \in {<<"a", "n", "d", "_", "v">>, <<"o", "r", "_", "i">>}
                    /\ n = 2 ->
                    LET l == MsFromTree(top.args[1])
                        r == MsFromTree(top.args[2])
                    IN  IF ~l.ok THEN l
                        ELSE IF ~r.ok THEN r
                        ELSE IF frag_name = <<"a", "n", "d", "_", "v">>
                        THEN Ok(AndV(l.val, r.val))
                        ELSE Ok(OrI(l.val, r.val))
              [] frag_name = <<"m", "u", "l", "t", "i">> ->
                    IF n = 0 THEN Err("Unexpected")
                    ELSE
                        LET k == TerminalNum(top.args[1])
                            pks == TerminalPks(Tail(top.args), <<>>)
                        IN  IF ~k.ok THEN k
                            ELSE IF k.val > n - 1 THEN Err("Unexpected")
                            ELSE IF ~pks.ok THEN pks
                            ELSE Ok(Multi(k.val, pks.val))
              [] OTHER -> Err("Unexpected")
    IN
    IF Len(parts) > 2 THEN Err("MultiColon")
    ELSE IF Len(parts) = 2 /\ parts[1] = <<>> THEN Err("Unexpected")
    ELSE IF ~unwrapped.ok THEN unwrapped
    ELSE
        LET wrapped == ApplyWrappers(frag_wrap, unwrapped.val) IN
        IF ~wrapped.ok THEN wrapped ELSE from_ast(wrapped.val)

(***************************************************************************)
(* Script form of a fragment (Terminal::encode) and its measures.          *)
(***************************************************************************)
\* script::Builder::push_verify: fold VERIFY into the last opcode if it has
\* a verifying form
push_verify(sc) ==
    LET last == sc[Len(sc)]
        front == SubSeq(sc, 1, Len(sc) - 1)
    IN  IF last = Op(OP_EQUAL) THEN Append(front, Op(OP_EQUALVERIFY))
        ELSE IF last = Op(OP_CHECKSIG) THEN Append(front, Op(OP_CHECKSIGVERIFY))
        ELSE IF last = Op(OP_CHECKMULTISIG)
        THEN Append(front, Op(OP_CHECKMULTISIGVERIFY))
        ELSE Append(sc, Op(OP_VERIFY))

RECURSIVE PushKeys(_)
PushKeys(pks) ==
    IF pks = <<>> THEN <<>>
    ELSE PushSlice(PkBytes(Head(pks))) \o PushKeys(Tail(pks))

RECURSIVE encode(_)
encode(ms) ==
    CASE ms.node = "0" -> <<Op(OP_0)>>
      [] ms.node = "1" -> <<Op(OP_PUSHNUM_1)>>
      [] ms.node = "pk_k" -> PushSlice(PkBytes(ms.pks[1]))
      [] ms.node = "older" -> PushInt(ms.k) \o <<Op(OP_CSV)>>
      [] ms.node = "multi" ->
            PushInt(ms.k) \o PushKeys(ms.pks) \o PushInt(Len(ms.pks))
                \o <<Op(OP_CHECKMULTISIG)>>
      [] ms.node = "c" -> Append(encode(ms.subs[1]), Op(OP_CHECKSIG))
      [] ms.node = "v" -> push_verify(encode(ms.subs[1]))
      [] ms.node = "and_v" -> encode(ms.subs[1]) \o encode(ms.subs[2])
      [] ms.node = "or_i" ->
            <<Op(OP_IF)>> \o encode(ms.subs[1]) \o <<Op(OP_ELSE)>>
                \o encode(ms.subs[2]) \o <<Op(OP_ENDIF)>>

\* Miniscript::script_size
script_size(ms) == ext_data(ms).pk_cost

\* Miniscript::max_satisfaction_witness_elements: the witness script counts
max_satisfaction_witness_elements(ms) ==
    LET e == ext_data(ms).max_sat_witness_elems IN
    IF e = NoSat THEN Err("ImpossibleSatisfaction") ELSE Ok(e + 1)

\* Miniscript::max_satisfaction_size
max_satisfaction_size(ms) ==
    LET e == ext_data(ms).max_sat_size IN
    IF e = NoSat THEN Err("ImpossibleSatisfaction") ELSE Ok(e)

\* Segwitv0::top_level_checks
top_level_checks(ms) ==
    LET t == type_check(ms).val IN
    IF t.base # "B" THEN Err("NonTopLevel")
    ELSE IF ~t.m THEN Err("Malleable")
    ELSE IF script_size(ms) > MAX_SCRIPT_SIZE
    THEN Err("ContextError.MaxWitnessScriptSizeExceeded")
    ELSE Ok(ms)

(***************************************************************************)
(* SortedMultiVec (descriptor/sortedmulti.rs): [k, pks]                    *)
(***************************************************************************)
Smv(k, pks) == [k |-> k, pks |-> pks]

SortedMultiVec_new(k, pks) ==
    IF Len(pks) > MAX_PUBKEYS_PER_MULTISIG THEN Err("BadDescriptor")
    ELSE
        LET ms == from_ast(Multi(k, pks)) IN
        IF ~ms.ok THEN ms ELSE Ok(Smv(k, pks))

SortedMultiVec_from_tree(tree) ==
    IF tree.args = <<>> THEN Err("Unexpected")
    ELSE
        LET k == parse_num(tree.args[1].name)
            pks == TerminalPks(Tail(tree.args), <<>>)
        IN  IF ~k.ok THEN k
            ELSE IF k.val > Len(tree.args) - 1 THEN Err("Unexpected")
            ELSE IF ~pks.ok THEN pks
            ELSE SortedMultiVec_new(k.val, pks.val)

SortedMultiVec_to_string(smv) ==
    Call(<<"s", "o", "r", "t", "e", "d", "m", "u", "l", "t", "i">>,
         <<NumToString(smv.k)>>
            \o [i \in 1..Len(smv.pks) |-> PkToString(smv.pks[i])])

\* the keys in the order of their serializations (a stable insertion sort)
RECURSIVE InsertPk(_, _)
InsertPk(pk, sorted) ==
    IF sorted = <<>> THEN <<pk>>
    ELSE IF PkLess(pk, Head(sorted)) THEN <<pk>> \o sorted
    ELSE <<Head(sorted)>> \o InsertPk(pk, Tail(sorted))

RECURSIVE SortPks(_)
SortPks(pks) ==
    IF pks = <<>> THEN <<>>
    ELSE InsertPk(pks[Len(pks)], SortPks(SubSeq(pks, 1, Len(pks) - 1)))

SortedMultiVec_encode(smv) == encode(Multi(smv.k, SortPks(smv.pks)))

SortedMultiVec_script_size(smv) ==
    script_num_size(smv.k) + 1 + script_num_size(Len(smv.pks)) + SumPkLen(smv.pks)

SortedMultiVec_max_satisfaction_witness_elements(smv) == 2 + smv.k

SortedMultiVec_max_satisfaction_size(smv) == 1 + 73 * smv.k

(***************************************************************************)
(* Satisfier and witness construction (miniscript/satisfy.rs).             *)
(* A satisfier is [sigs, siglen, older]: the keys it has an ECDSA          *)
(* signature for, the length of each of its signatures in DER with the     *)
(* sighash byte, and what check_older answers.  A witness element is a     *)
(* blob Data(term, len); a Witness is [kind, elems] with kind Stack,       *)
(* Unavailable or Impossible; a Satisfaction is [stack, has_sig].          *)
(***************************************************************************)
\* the lengths of a DER signature with its sighash byte: low-S ones take at
\* most 72 bytes, a high-S one with a high r takes 73
SigLens == {72, 73}

\* Satisfier::lookup_ecdsa_sig: at most one signature
lookup_ecdsa_sig(stfr, pk) == IF pk \in stfr.sigs THEN <<[sig |-> pk]>> ELSE <<>>

\* Satisfier::check_older
check_older(stfr, t) == stfr.older

\* elementssig_to_rawsig: the DER signature followed by the sighash byte
elementssig_to_rawsig(stfr, sig) == Data(sig, stfr.siglen)

\* the empty witness element and the one-byte element 0x01
EmptyElem == Data([num |-> 0], 0)

OneElem == Data([num |-> 1], 1)

\* the bytes of a script as one witness element
ScriptBytes(sc) == Data([script |-> sc], ScriptLen(sc))

\* witness_size: the serialized size of a witness stack, its element count
\* and every element with its length prefix
RECURSIVE ElemsSize(_)
ElemsSize(stack) ==
    IF stack = <<>> THEN 0
    ELSE varint_len(Head(stack).len) + Head(stack).len + ElemsSize(Tail(stack))

witness_size(stack) == varint_len(Len(stack)) + ElemsSize(stack)

Witness(kind, elems) == [kind |-> kind, elems |-> elems]

Satisfaction(stack, has_sig) == [stack |-> stack, has_sig |-> has_sig]

\* Witness::combine: two stacks one after the other; impossible when one is,
\* else unavailable when one is
Witness_combine(a, b) ==
    IF a.kind = "Impossible" \/ b.kind = "Impossible" THEN Witness("Impossible", <<>>)
    ELSE IF a.kind = "Unavailable" \/ b.kind = "Unavailable"
    THEN Witness("Unavailable", <<>>)
    ELSE Witness("Stack", a.elems \o b.elems)

\* the order of witnesses: a stack before an unavailable one before an
\* impossible one, and the smaller stack first
Witness_min(a, b) ==
    LET rank(w) == CASE w.kind = "Stack" -> 0
                     [] w.kind = "Unavailable" -> 1
                     [] OTHER -> 2
    IN  IF rank(a) # rank(b) THEN (IF rank(a) < rank(b) THEN a ELSE b)
        ELSE IF a.kind = "Stack" /\ witness_size(b.elems) < witness_size(a.elems)
        THEN b
        ELSE a

\* Satisfaction::minimum: the choice between two branches that lets no third
\* party turn the witness into another valid one
minimum(sat1, sat2) ==
    IF sat1.stack.kind = "Impossible" THEN sat2
    ELSE IF sat2.stack.kind = "Impossible" THEN sat1
    ELSE IF ~sat1.has_sig /\ ~sat2.has_sig
    THEN Satisfaction(Witness("Unavailable", <<>>), FALSE)
    ELSE IF ~sat1.has_sig THEN Satisfaction(sat1.stack, FALSE)
    ELSE IF ~sat2.has_sig THEN Satisfaction(sat2.stack, FALSE)
    ELSE Satisfaction(Witness_min(sat1.stack, sat2.stack), TRUE)

\* Satisfaction::minimum_mall: the cheaper branch
minimum_mall(sat1, sat2) ==
    Satisfaction(Witness_min(sat1.stack, sat2.stack),
                 sat1.has_sig /\ sat2.has_sig)

\* the signatures of the first k keys of pks that the satisfier signs for
RECURSIVE MultiSigs(_, _, _)
MultiSigs(stfr, pks, k) ==
    IF pks = <<>> \/ k = 0 THEN <<>>
    ELSE
        LET sig == lookup_ecdsa_sig(stfr, Head(pks)) IN
        IF sig = <<>> THEN MultiSigs(stfr, Tail(pks), k)
        ELSE <<elementssig_to_rawsig(stfr, sig[1])>>
                \o MultiSigs(stfr, Tail(pks), k - 1)

\* Satisfaction::satisfy_helper: the satisfaction of a fragment, bottom up;
\* mall chooses between minimum and minimum_mall
RECURSIVE satisfy_helper(_, _, _)
satisfy_helper(ms, stfr, mall) ==
    CASE ms.node = "0" -> Satisfaction(Witness("Impossible", <<>>), FALSE)
      [] ms.node = "1" -> Satisfaction(Witness("Stack", <<>>), FALSE)
      [] ms.node = "pk_k" ->
            LET sig == lookup_ecdsa_sig(stfr, ms.pks[1]) IN
            Satisfaction(IF sig = <<>> THEN Witness("Unavailable", <<>>)
                         ELSE Witness("Stack", <<elementssig_to_rawsig(stfr, sig[1])>>),
                         TRUE)
      [] ms.node = "older" ->
            Satisfaction(IF check_older(stfr, ms.k) THEN Witness("Stack", <<>>)
                         ELSE Witness("Impossible", <<>>),
                         FALSE)
      [] ms.node = "multi" ->
            LET sigs == MultiSigs(stfr, ms.pks, ms.k) IN
            IF Len(sigs) < ms.k
            THEN Satisfaction(Witness("Impossible", <<>>), FALSE)
            ELSE Satisfaction(Witness("Stack", <<EmptyElem>> \o sigs), TRUE)
      [] ms.node \in {"c", "v"} -> satisfy_helper(ms.subs[1], stfr, mall)
      [] ms.node = "and_v" ->
            LET l == satisfy_helper(ms.subs[1], stfr, mall)
                r == satisfy_helper(ms.subs[2], stfr, mall)
            IN  Satisfaction(Witness_combine(r.stack, l.stack),
                             l.has_sig \/ r.has_sig)
      [] ms.node = "or_i" ->
            LET l == satisfy_helper(ms.subs[1], stfr, mall)
                r == satisfy_helper(ms.subs[2], stfr, mall)
                a == Satisfaction(
                        Witness_combine(l.stack, Witness("Stack", <<OneElem>>)),
                        l.has_sig)
                b == Satisfaction(
                        Witness_combine(r.stack, Witness("Stack", <<EmptyElem>>)),
                        r.has_sig)
            IN  IF mall THEN minimum_mall(a, b) ELSE minimum(a, b)

\* what Miniscript::satisfy and Miniscript::satisfy_malleable make of the
\* satisfaction of the root
SatisfyResult(sat) ==
    IF sat.stack.kind = "Stack" THEN Ok(sat.stack.elems) ELSE Err("CouldNotSatisfy")

\* Miniscript::satisfy: the non-malleable witness stack
satisfy(ms, stfr) == SatisfyResult(satisfy_helper(ms, stfr, FALSE))

\* Miniscript::satisfy_malleable: the witness stack of least weight
satisfy_malleable(ms, stfr) == SatisfyResult(satisfy_helper(ms, stfr, TRUE))

\* SortedMultiVec::satisfy: the satisfaction of the multi over the sorted keys
SortedMultiVec_satisfy(smv, stfr) == satisfy(Multi(smv.k, SortPks(smv.pks)), stfr)

\* Miniscript::sanity_check: the type and context checks of every node and
\* the checks of the root run again, a root that no witness satisfies
\* included
Miniscript_sanity_check(ms) ==
    IF ~IsMiniscript(ms) THEN from_ast(ms)
    ELSE IF ~top_level_checks(ms).ok THEN top_level_checks(ms)
    ELSE IF ext_data(ms).max_sat_witness_elems = NoSat
    THEN Err("ImpossibleSatisfaction")
    ELSE Ok(<<>>)

\* SortedMultiVec::sanity_check: the sanity check of its multi
SortedMultiVec_sanity_check(smv) == Miniscript_sanity_check(Multi(smv.k, smv.pks))

(***************************************************************************)
(* Key translation (trait TranslatePk).  A translator t stands for the     *)
(* pair of closures given to translate_pk; a translation returns           *)
(* [ok, val, calls] or [ok, err, calls], calls being the closure calls     *)
(* made, in order.                                                         *)
(***************************************************************************)
\* translatefpk: the closure on keys; it renames the key, or turns it into
\* an uncompressed one, or fails on the key numbered t.at (on every key when
\* t.at = 0) with an error that names the key
translatefpk(t, pk) ==
    CASE t.kind = "uncompress" -> Ok(Pk(pk.x, FALSE))
      [] t.kind = "fail" /\ (t.at = 0 \/ t.at = pk.x) ->
            ErrInfo("Translate", PkToString(pk))
      [] OTHER -> Ok(Pk((pk.x % NumKeys) + 1, pk.compressed))

\* the keys of pks translated one after the other up to the first failure
RECURSIVE TranslateKeys(_, _, _, _)
TranslateKeys(t, pks, done, calls) ==
    IF pks = <<>> THEN [ok |-> TRUE, val |-> done, calls |-> calls]
    ELSE
        LET q == translatefpk(t, Head(pks))
            made == Append(calls, <<"translatefpk", Head(pks)>>)
        IN  IF ~q.ok THEN [ok |-> FALSE, err |-> q.err, calls |-> made]
            ELSE TranslateKeys(t, Tail(pks), Append(done, q.val), made)

\* SortedMultiVec::translate_pk
SortedMultiVec_translate_pk(smv, t) ==
    LET pks == TranslateKeys(t, smv.pks, <<>>, <<>>) IN
    IF ~pks.ok THEN pks
    ELSE [ok |-> TRUE, val |-> Smv(smv.k, pks.val), calls |-> pks.calls]

\* the keys of a fragment in the order the translation meets them
RECURSIVE KeysOf(_)
KeysOf(ms) ==
    ms.pks \o (IF Len(ms.subs) = 0 THEN <<>>
               ELSE IF Len(ms.subs) = 1 THEN KeysOf(ms.subs[1])
               ELSE KeysOf(ms.subs[1]) \o KeysOf(ms.subs[2]))

\* the fragment with the keys qs, as many as it has keys, in the place of
\* its own
RECURSIVE WithKeys(_, _)
WithKeys(ms, qs) ==
    LET own == Len(ms.pks)
        left == IF Len(ms.subs) = 0 THEN 0 ELSE Len(KeysOf(ms.subs[1]))
    IN  Frag(ms.node, ms.k, SubSeq(qs, 1, own),
             [i \in 1..Len(ms.subs) |->
                IF i = 1 THEN WithKeys(ms.subs[1], SubSeq(qs, own + 1, own + left))
                ELSE WithKeys(ms.subs[2], SubSeq(qs, own + left + 1, Len(qs)))])

\* Miniscript::translate_pk: the same fragment over the translated keys; the
\* closure on key hashes is for pk_h fragments, and is not called for the
\* fragments modelled
Miniscript_translate_pk(ms, t) ==
    LET pks == TranslateKeys(t, KeysOf(ms), <<>>, <<>>) IN
    IF ~pks.ok THEN pks
    ELSE [ok |-> TRUE, val |-> WithKeys(ms, pks.val), calls |-> pks.calls]

(***************************************************************************)
(* elements::Address and Script helpers.                                   *)
(***************************************************************************)
AddressParams == {"ELEMENTS", "LIQUID"}

\* Option<secp256k1_zkp::PublicKey>
Blinders == {<<>>, <<[x |-> 1, compressed |-> TRUE]>>}

Address(params, payload, blinder) ==
    [params |-> params, payload |-> payload, blinding_pubkey |-> blinder]

Address_p2wsh(script, blinder, params) ==
    Address(params, [witness_version |-> 0, program |-> Sha256(script)], blinder)

Address_p2wpkh(pk, blinder, params) ==
    Address(params, [witness_version |-> 0, program |-> Hash160(PkBytes(pk))],
            blinder)

Address_p2pkh(pk, blinder, params) ==
    Address(params, [pubkey_hash |-> Hash160(PkBytes(pk))], blinder)

Address_script_pubkey(addr) ==
    IF "pubkey_hash" \in DOMAIN addr.payload
    THEN <<Op(OP_DUP), Op(OP_HASH160)>> \o PushSlice(addr.payload.pubkey_hash)
            \o <<Op(OP_EQUALVERIFY), Op(OP_CHECKSIG)>>
    ELSE <<Op(IF addr.payload.witness_version = 0 THEN OP_0
              ELSE OP_PUSHNUM_1 - 1 + addr.payload.witness_version)>>
            \o PushSlice(addr.payload.program)

to_v0_p2wsh(script) == <<Op(OP_0)>> \o PushSlice(Sha256(script))

(***************************************************************************)
(* Wsh (segwitv0.rs:34-331).  A descriptor value is                        *)
(*   [ty |-> "wsh", inner |-> "Ms", ms |-> fragment]                       *)
(*   [ty |-> "wsh", inner |-> "SortedMulti", smv |-> [k, pks]]             *)
(*   [ty |-> "wpkh", pk |-> key]                                           *)
(***************************************************************************)
WshMs(ms) == [ty |-> "wsh", inner |-> "Ms", ms |-> ms]

WshSortedMulti(smv) == [ty |-> "wsh", inner |-> "SortedMulti", smv |-> smv]

Wpkh(pk) == [ty |-> "wpkh", pk |-> pk]

IsWsh(d) == "ty" \in DOMAIN d /\ d.ty = "wsh"

IsWshMs(d) == IsWsh(d) /\ d.inner = "Ms"

IsWshSortedMulti(d) == IsWsh(d) /\ d.inner = "SortedMulti"

IsWpkh(d) == "ty" \in DOMAIN d /\ d.ty = "wpkh"

WSH == <<"w", "s", "h">>
WPKH == <<"w", "p", "k", "h">>
SORTEDMULTI == <<"s", "o", "r", "t", "e", "d", "m", "u", "l", "t", "i">>

\* faulty variant of Wsh::new: the top-level checks are skipped
Wsh_new_unchecked(ms) == Ok(WshMs(ms))

Wsh_new(ms) ==
    LET c == top_level_checks(ms) IN
    IF ~c.ok THEN c ELSE Ok(WshMs(ms))

Wsh_new_sortedmulti(k, pks) ==
    LET smv == SortedMultiVec_new(k, pks) IN
    IF ~smv.ok THEN smv ELSE Ok(WshSortedMulti(smv.val))

Wsh_to_string_no_checksum(d) ==
    IF d.inner = "SortedMulti"
    THEN Call(WSH, <<SortedMultiVec_to_string(d.smv)>>)
    ELSE Call(WSH, <<MsToString(d.ms)>>)

\* the body shared by Wsh::from_inner_tree and Wsh::from_tree: the root is
\* expected to carry the name root_name
WshParseRoot(top, root_name) ==
    IF top.name = root_name /\ Len(top.args) = 1 THEN
        LET top1 == top.args[1] IN
        IF top1.name = SORTEDMULTI THEN
            Try(SortedMultiVec_from_tree(top1), LAMBDA smv : Ok(WshSortedMulti(smv)))
        ELSE
            Try(MsFromTree(top1),
                LAMBDA sub : Try(top_level_checks(sub), LAMBDA c : Ok(WshMs(sub))))
    ELSE Err("Unexpected")

\* faulty variant of Wsh::from_inner_tree: the first argument is parsed as a
\* miniscript before the root is looked at
Wsh_from_inner_tree_args_first(top) ==
    IF top.args # <<>> /\ ~MsFromTree(top.args[1]).ok
    THEN MsFromTree(top.args[1])
    ELSE WshParseRoot(top, WSH)

Wsh_from_inner_tree(top) == WshParseRoot(top, WSH)

\* faulty variant of Wsh::from_tree: the root name is accepted with and
\* without the el prefix
Wsh_from_tree_any_prefix(top) ==
    IF top.name = WSH THEN WshParseRoot(top, WSH)
    ELSE WshParseRoot(top, ELMTS_STR \o WSH)

Wsh_from_tree(top) == WshParseRoot(top, ELMTS_STR \o WSH)

\* faulty variant of Display for Wsh: the checksum is computed over the body
\* without the el prefix
Wsh_fmt_checksum_of_inner(d) ==
    LET inner_str == Wsh_to_string_no_checksum(d)
        checksum == desc_checksum(inner_str)
    IN  IF ~checksum.ok THEN Err("fmt::Error")
        ELSE Ok(ELMTS_STR \o inner_str \o <<"#">> \o checksum.val)

Wsh_fmt(d) ==
    LET desc_str == ELMTS_STR \o Wsh_to_string_no_checksum(d)
        checksum == desc_checksum(desc_str)
    IN  IF ~checksum.ok THEN Err("fmt::Error")
        ELSE Ok(desc_str \o <<"#">> \o checksum.val)

\* faulty variant of Wsh::from_str: the checksum is cut off and not verified
Wsh_from_str_unverified(s) ==
    LET h == IndexOf(s, "#", 1)
        desc_str == IF h = 0 THEN s ELSE SubSeq(s, 1, h - 1)
        top == TreeFromStr(desc_str)
    IN  IF ~top.ok THEN top ELSE Wsh_from_tree(top.val)

Wsh_from_str(s) ==
    Try(verify_checksum(s),
        LAMBDA desc_str : Try(TreeFromStr(desc_str), Wsh_from_tree))

Wsh_inner_script(d) ==
    IF d.inner = "SortedMulti" THEN SortedMultiVec_encode(d.smv)
    ELSE encode(d.ms)

Wsh_script_pubkey(d) == to_v0_p2wsh(Wsh_inner_script(d))

\* faulty variant of Wsh::address: the witness program is the 20-byte hash
\* of the witness script
Wsh_address_hash160(d, blinder, params) ==
    Address(params,
            [witness_version |-> 0,
             program |-> Hash160(IF d.inner = "SortedMulti"
                                 THEN SortedMultiVec_encode(d.smv)
                                 ELSE encode(d.ms))],
            blinder)

Wsh_address(d, blinder, params) ==
    IF d.inner = "SortedMulti"
    THEN Address_p2wsh(SortedMultiVec_encode(d.smv), blinder, params)
    ELSE Address_p2wsh(encode(d.ms), blinder, params)

Wsh_ecdsa_sighash_script_code(d) == Wsh_inner_script(d)

\* faulty variant of Wsh::max_satisfaction_weight: the varint of the number
\* of witness elements is left out, and an unsatisfiable miniscript counts
\* as an empty satisfaction
Wsh_max_satisfaction_weight_short(d) ==
    IF d.inner = "SortedMulti" THEN
        Ok(4 + varint_len(SortedMultiVec_script_size(d.smv))
             + SortedMultiVec_script_size(d.smv)
             + SortedMultiVec_max_satisfaction_size(d.smv))
    ELSE
        LET size == max_satisfaction_size(d.ms) IN
        Ok(4 + varint_len(script_size(d.ms)) + script_size(d.ms)
             + (IF size.ok THEN size.val ELSE 0))

Wsh_max_satisfaction_weight(d) ==
    LET sizes ==
            IF d.inner = "SortedMulti" THEN
                Ok(<<SortedMultiVec_script_size(d.smv),
                     SortedMultiVec_max_satisfaction_witness_elements(d.smv),
                     SortedMultiVec_max_satisfaction_size(d.smv)>>)
            ELSE
                LET elems == max_satisfaction_witness_elements(d.ms)
                    size == max_satisfaction_size(d.ms)
                IN  IF ~elems.ok THEN elems
                    ELSE IF ~size.ok THEN size
                    ELSE Ok(<<script_size(d.ms), elems.val, size.val>>)
    IN  IF ~sizes.ok THEN sizes
        ELSE Ok(4 + varint_len(sizes.val[1]) + sizes.val[1]
                  + varint_len(sizes.val[2]) + sizes.val[3])

\* faulty variant of Wsh::translate_pk: a sorted multisig becomes the
\* miniscript multi over its translated keys
Wsh_translate_pk_as_multi(d, t) ==
    LET inner == IF d.inner = "SortedMulti" THEN SortedMultiVec_translate_pk(d.smv, t)
                 ELSE Miniscript_translate_pk(d.ms, t)
    IN  IF ~inner.ok THEN inner
        ELSE [ok |-> TRUE, calls |-> inner.calls,
              val |-> IF d.inner = "SortedMulti"
                      THEN WshMs(Multi(inner.val.k, inner.val.pks))
                      ELSE WshMs(inner.val)]

\* Wsh::translate_pk
Wsh_translate_pk(d, t) ==
    LET inner == IF d.inner = "SortedMulti" THEN SortedMultiVec_translate_pk(d.smv, t)
                 ELSE Miniscript_translate_pk(d.ms, t)
    IN  IF ~inner.ok THEN inner
        ELSE [ok |-> TRUE, calls |-> inner.calls,
              val |-> IF d.inner = "SortedMulti" THEN WshSortedMulti(inner.val)
                      ELSE WshMs(inner.val)]

\* Wsh::sanity_check
Wsh_sanity_check(d) ==
    LET inner == IF d.inner = "SortedMulti" THEN SortedMultiVec_sanity_check(d.smv)
                 ELSE Miniscript_sanity_check(d.ms)
    IN  IF ~inner.ok THEN inner ELSE Ok(<<>>)

\* faulty variant of Wsh::get_satisfaction: the witness script is pushed
\* first
Wsh_get_satisfaction_script_first(d, stfr) ==
    LET witness == IF d.inner = "SortedMulti"
                   THEN SortedMultiVec_satisfy(d.smv, stfr)
                   ELSE satisfy(d.ms, stfr)
    IN  IF ~witness.ok THEN witness
        ELSE Ok(<<<<ScriptBytes(Wsh_inner_script(d))>> \o witness.val, <<>>>>)

\* Wsh::get_satisfaction: the satisfaction of the inner script followed by
\* the witness script, and an empty scriptSig
Wsh_get_satisfaction(d, stfr) ==
    LET witness == IF d.inner = "SortedMulti"
                   THEN SortedMultiVec_satisfy(d.smv, stfr)
                   ELSE satisfy(d.ms, stfr)
    IN  IF ~witness.ok THEN witness
        ELSE Ok(<<Append(witness.val, ScriptBytes(Wsh_inner_script(d))), <<>>>>)

\* faulty variant of Wsh::get_satisfaction_mall: a sorted multisig is not
\* handled
Wsh_get_satisfaction_mall_ms_only(d, stfr) ==
    IF d.inner = "SortedMulti" THEN Err("CouldNotSatisfy")
    ELSE LET witness == satisfy_malleable(d.ms, stfr) IN
         IF ~witness.ok THEN witness
         ELSE Ok(<<Append(witness.val, ScriptBytes(Wsh_inner_script(d))), <<>>>>)

\* Wsh::get_satisfaction_mall: the same with the malleable satisfaction of a
\* miniscript
Wsh_get_satisfaction_mall(d, stfr) ==
    LET witness == IF d.inner = "SortedMulti"
                   THEN SortedMultiVec_satisfy(d.smv, stfr)
                   ELSE satisfy_malleable(d.ms, stfr)
    IN  IF ~witness.ok THEN witness
        ELSE Ok(<<Append(witness.val, ScriptBytes(Wsh_inner_script(d))), <<>>>>)

(***************************************************************************)
(* Wpkh (segwitv0.rs:333-559)                                              *)
(***************************************************************************)
\* faulty variant of Wpkh::new: the key is not inspected
Wpkh_new_any_key(pk) == Ok(Wpkh(pk))

Wpkh_new(pk) ==
    IF is_uncompressed(pk)
    THEN ErrInfo("ContextError.CompressedOnly", PkToString(pk))
    ELSE Ok(Wpkh(pk))

Wpkh_to_string_no_checksum(d) == Call(WPKH, <<PkToString(d.pk)>>)

\* the body shared by Wpkh::from_inner_tree and Wpkh::from_tree
WpkhParseRoot(top, root_name) ==
    IF top.name = root_name /\ Len(top.args) = 1 THEN
        Try(TerminalPk(top.args[1]), Wpkh_new)
    ELSE Err("Unexpected")

Wpkh_from_inner_tree(top) == WpkhParseRoot(top, WPKH)

Wpkh_from_tree(top) == WpkhParseRoot(top, ELMTS_STR \o WPKH)

Wpkh_fmt(d) ==
    LET desc_str == ELMTS_STR \o Wpkh_to_string_no_checksum(d)
        checksum == desc_checksum(desc_str)
    IN  IF ~checksum.ok THEN Err("fmt::Error")
        ELSE Ok(desc_str \o <<"#">> \o checksum.val)

Wpkh_from_str(s) ==
    Try(verify_checksum(s),
        LAMBDA desc_str : Try(TreeFromStr(desc_str), Wpkh_from_tree))

Wpkh_address(d, blinder, params) == Address_p2wpkh(d.pk, blinder, params)

\* faulty variant of Wpkh::script_pubkey: the script of the legacy
\* pay-to-pubkey-hash address
Wpkh_script_pubkey_legacy(d) ==
    Address_script_pubkey(Address_p2pkh(d.pk, <<>>, "ELEMENTS"))

Wpkh_script_pubkey(d) ==
    Address_script_pubkey(Wpkh_address(d, <<>>, "ELEMENTS"))

\* faulty variant of Wpkh::inner_script: the pay-to-pubkey-hash script
Wpkh_inner_script_p2pkh(d) ==
    Address_script_pubkey(Address_p2pkh(d.pk, <<>>, "ELEMENTS"))

Wpkh_inner_script(d) == Wpkh_script_pubkey(d)

\* faulty variant of Wpkh::ecdsa_sighash_script_code: the previous output's
\* scriptPubKey
Wpkh_ecdsa_sighash_script_code_spk(d) ==
    Address_script_pubkey(Address_p2wpkh(d.pk, <<>>, "ELEMENTS"))

Wpkh_ecdsa_sighash_script_code(d) ==
    Address_script_pubkey(Address_p2pkh(d.pk, <<>>, "ELEMENTS"))

\* faulty variant of Wpkh::max_satisfaction_weight: the push opcode of the
\* signature is not counted
Wpkh_max_satisfaction_weight_der_only(d) == 4 + 1 + 72 + pk_len(d.pk)

Wpkh_max_satisfaction_weight(d) == 4 + 1 + 73 + pk_len(d.pk)

\* Wpkh::as_inner: a shared reference to the key
Wpkh_as_inner(d) == d.pk

\* Wsh::as_inner: a shared reference to the inner miniscript or sortedmulti
Wsh_as_inner(d) == IF d.inner = "Ms" THEN d.ms ELSE d.smv

\* #[derive(Clone)]: a field-by-field copy
Descriptor_clone(d) == d

\* faulty variant of Wpkh::translate_pk: the translated key is stored as it
\* is, without Wpkh::new
Wpkh_translate_pk_unchecked(d, t) ==
    LET q == translatefpk(t, d.pk)
        calls == <<<<"translatefpk", d.pk>>>>
    IN  IF ~q.ok THEN [ok |-> FALSE, err |-> q.err, calls |-> calls]
        ELSE [ok |-> TRUE, val |-> Wpkh(q.val), calls |-> calls]

\* Wpkh::translate_pk: the Wpkh of the translated key, the error of the
\* closure, or the panic of expect() when Wpkh::new refuses the key
Wpkh_translate_pk(d, t) ==
    LET q == translatefpk(t, d.pk)
        calls == <<<<"translatefpk", d.pk>>>>
    IN  IF ~q.ok THEN [ok |-> FALSE, err |-> q.err, calls |-> calls]
        ELSE IF ~Wpkh_new(q.val).ok
        THEN [ok |-> FALSE, panic |-> "Uncompressed keys in Wpkh", calls |-> calls]
        ELSE [ok |-> TRUE, val |-> Wpkh_new(q.val).val, calls |-> calls]

\* Wpkh::sanity_check
Wpkh_sanity_check(d) ==
    IF is_uncompressed(d.pk)
    THEN ErrInfo("ContextError.CompressedOnly", PkToString(d.pk))
    ELSE Ok(<<>>)

\* faulty variant of Wpkh::get_satisfaction: a missing signature gives a
\* witness without it
Wpkh_get_satisfaction_unsigned(d, stfr) ==
    LET sig == lookup_ecdsa_sig(stfr, d.pk) IN
    IF sig # <<>>
    THEN Ok(<<<<elementssig_to_rawsig(stfr, sig[1]), PkBytes(d.pk)>>, <<>>>>)
    ELSE Ok(<<<<PkBytes(d.pk)>>, <<>>>>)

\* Wpkh::get_satisfaction: the signature and the key, and an empty scriptSig
Wpkh_get_satisfaction(d, stfr) ==
    LET sig == lookup_ecdsa_sig(stfr, d.pk) IN
    IF sig # <<>>
    THEN Ok(<<<<elementssig_to_rawsig(stfr, sig[1]), PkBytes(d.pk)>>, <<>>>>)
    ELSE ErrInfo("MissingSig", PkToString(d.pk))

\* Wpkh::get_satisfaction_mall
Wpkh_get_satisfaction_mall(d, stfr) == Wpkh_get_satisfaction(d, stfr)

(***************************************************************************)
(* Interpreter (interpreter/mod.rs, interpreter/stack.rs), with the errors *)
(* of interpreter/error.rs.  An interpreter is [inner, stack, age]: inner  *)
(* is the miniscript inferred from the witness script, or the key of a     *)
(* key spend; stack is the witness below the script, its top last.         *)
(***************************************************************************)
\* the number pushed by a one-byte push opcode, or -1
PushedNum(tok) ==
    IF IsOp(tok) /\ tok.op >= OP_PUSHNUM_1 /\ tok.op <= OP_PUSHNUM_1 + 15
    THEN tok.op - OP_PUSHNUM_1 + 1
    ELSE -1

\* the position of the OP_IF (which = OP_IF) or of the OP_ELSE of the
\* conditional that closes after position i, looking leftwards from i with
\* depth conditionals open in between; 0 when there is none
RECURSIVE FindOpen(_, _, _, _)
FindOpen(toks, i, depth, which) ==
    IF i < 1 THEN 0
    ELSE IF toks[i] = Op(OP_ENDIF) THEN FindOpen(toks, i - 1, depth + 1, which)
    ELSE IF toks[i] = Op(OP_IF) /\ depth > 0 THEN FindOpen(toks, i - 1, depth - 1, which)
    ELSE IF toks[i] = Op(which) /\ depth = 0 THEN i
    ELSE FindOpen(toks, i - 1, depth, which)

\* the keys pushed at positions lo .. hi, or <<>> when these are not pushes
\* of keys
RECURSIVE PushedKeys(_, _, _)
PushedKeys(toks, lo, hi) ==
    IF lo > hi THEN <<>>
    ELSE IF lo < hi /\ IsOp(toks[lo]) /\ ~IsOp(toks[lo + 1])
            /\ "pk" \in DOMAIN toks[lo + 1].data
    THEN <<toks[lo + 1].data.pk>> \o PushedKeys(toks, lo + 2, hi)
    ELSE <<>>

\* decode: the fragment that ends at position hi of the script and begins
\* no earlier than lo, read from the end as [ok, ms, lo]; ParseExpr reads
\* the and_v chain that fills lo .. hi
RECURSIVE ParseUnit(_, _, _)
RECURSIVE ParseExpr(_, _, _)
ParseUnit(toks, lo, hi) ==
    LET fail == [ok |-> FALSE]
        done(ms, start) == [ok |-> TRUE, ms |-> ms, lo |-> start]
        wrap(W(_), r) == IF r.ok THEN done(W(r.ms), r.lo) ELSE fail
        multi ==
            LET n == IF hi - 1 >= lo THEN PushedNum(toks[hi - 1]) ELSE -1
                first == hi - 2 * n - 2
                pks == IF n >= 1 /\ first >= lo
                       THEN PushedKeys(toks, first + 1, hi - 2) ELSE <<>>
            IN  IF Len(pks) = n /\ n >= 1 /\ PushedNum(toks[first]) >= 1
                THEN done(Multi(PushedNum(toks[first]), pks), first)
                ELSE fail
    IN
    IF hi < lo THEN fail
    ELSE IF ~IsOp(toks[hi]) THEN
        IF hi > lo /\ "pk" \in DOMAIN toks[hi].data
        THEN done(PkK(toks[hi].data.pk), hi - 1) ELSE fail
    ELSE
    CASE toks[hi].op = OP_0 -> done(False, hi)
      [] toks[hi].op = OP_PUSHNUM_1 -> done(True, hi)
      [] toks[hi].op = OP_CHECKSIG -> wrap(Check, ParseUnit(toks, lo, hi - 1))
      [] toks[hi].op = OP_CHECKSIGVERIFY ->
            LET r == ParseUnit(toks, lo, hi - 1) IN
            IF r.ok THEN done(Verify(Check(r.ms)), r.lo) ELSE fail
      [] toks[hi].op = OP_VERIFY -> wrap(Verify, ParseUnit(toks, lo, hi - 1))
      [] toks[hi].op = OP_CSV ->
            IF hi > lo /\ PushedNum(toks[hi - 1]) >= 1
            THEN done(Older(PushedNum(toks[hi - 1])), hi - 1) ELSE fail
      [] toks[hi].op = OP_CHECKMULTISIG -> multi
      [] toks[hi].op = OP_CHECKMULTISIGVERIFY -> wrap(Verify, multi)
      [] toks[hi].op = OP_ENDIF ->
            LET e == FindOpen(toks, hi - 1, 0, OP_ELSE)
                i == FindOpen(toks, hi - 1, 0, OP_IF)
                x == ParseExpr(toks, i + 1, e - 1)
                y == ParseExpr(toks, e + 1, hi - 1)
            IN  IF lo <= i /\ 0 < i /\ i < e /\ x.ok /\ y.ok
                THEN done(OrI(x.ms, y.ms), i) ELSE fail
      [] OTHER -> fail

ParseExpr(toks, lo, hi) ==
    LET u == ParseUnit(toks, lo, hi) IN
    IF ~u.ok \/ u.lo = lo THEN u
    ELSE
        LET x == ParseExpr(toks, lo, u.lo - 1) IN
        IF x.ok THEN [ok |-> TRUE, ms |-> AndV(x.ms, u.ms), lo |-> lo]
        ELSE [ok |-> FALSE]

\* Miniscript::parse: the miniscript inferred from a script, every node
\* type checked
Miniscript_parse(script) ==
    LET r == ParseExpr(script, 1, Len(script)) IN
    IF r.ok /\ IsMiniscript(r.ms) THEN Ok(r.ms) ELSE Err("Miniscript")

\* stack::Element::from: the empty element is a dissatisfaction, 0x01 a
\* satisfaction, anything else a push
Satisfied == [elem |-> "Satisfied"]

Dissatisfied == [elem |-> "Dissatisfied"]

Push(blob) == [elem |-> "Push", blob |-> blob]

Element_from(blob) ==
    IF blob.len = 0 THEN Dissatisfied
    ELSE IF blob = Data([num |-> 1], 1) THEN Satisfied
    ELSE Push(blob)

Interpreter(inner, elems, age) ==
    [inner |-> inner, stack |-> [i \in 1..Len(elems) |-> Element_from(elems[i])],
     age |-> age]

\* Interpreter::from_txdata for a P2WPKH and for a P2WSH output
Interpreter_from_txdata(spk, script_sig, witness, age) ==
    LET last == witness[Len(witness)]
        rest == SubSeq(witness, 1, Len(witness) - 1)
    IN
    IF Len(spk) = 3 /\ spk[1] = Op(OP_0) /\ spk[2] = Op(20) THEN
        IF script_sig # <<>> THEN Err("NonEmptyScriptSig")
        ELSE IF witness = <<>> THEN Err("UnexpectedStackEnd")
        ELSE IF "pk" \notin DOMAIN last.data THEN Err("PubkeyParseError")
        ELSE IF is_uncompressed(last.data.pk) THEN Err("UncompressedPubkey")
        ELSE IF Hash160(last) # spk[3] THEN Err("IncorrectWPubkeyHash")
        ELSE Ok(Interpreter([pk |-> last.data.pk], rest, age))
    ELSE IF Len(spk) = 3 /\ spk[1] = Op(OP_0) /\ spk[2] = Op(32) THEN
        IF script_sig # <<>> THEN Err("NonEmptyScriptSig")
        ELSE IF witness = <<>> THEN Err("UnexpectedStackEnd")
        ELSE IF "script" \notin DOMAIN last.data
                \/ Sha256(last.data.script) # spk[3]
        THEN Err("IncorrectWScriptHash")
        ELSE
            LET ms == Miniscript_parse(last.data.script) IN
            IF ~ms.ok THEN ms ELSE Ok(Interpreter(ms.val, rest, age))
    ELSE Err("CouldNotEvaluate")

\* the predicates on a key and a signature: iter verifies the signature
\* against the key, iter_assume_sigs accepts every signature, and the
\* predicate given to iter_custom may reject every one
Predicates == {"verify", "assume", "reject"}

\* faulty variant of verify_sersig: the signature is checked against the
\* key and the predicate is not asked
verify_sersig_unasked(pred, pk, blob) ==
    /\ "sig" \in DOMAIN blob.data
    /\ blob.data.sig = pk

\* verify_sersig: the element is a signature and the predicate accepts it
\* for the key
verify_sersig(pred, pk, blob) ==
    /\ "sig" \in DOMAIN blob.data
    /\ CASE pred = "verify" -> blob.data.sig = pk
         [] pred = "assume" -> TRUE
         [] OTHER -> FALSE

\* SatisfiedConstraint
PublicKey(pk) == [constraint |-> "PublicKey", pk |-> pk]

RelativeTimelock(n) == [constraint |-> "RelativeTimelock", n |-> n]

NodeEvaluationState(ms, n_evaluated, n_satisfied) ==
    [ms |-> ms, n_evaluated |-> n_evaluated, n_satisfied |-> n_satisfied]

\* Interpreter::iter_custom: the iterator over the constraints, with the
\* nodes still to run (the next one last), the key of a key spend still to
\* check, and the items yielded so far
Interpreter_iter_custom(interp, pred) ==
    [stack |-> interp.stack, age |-> interp.age, pred |-> pred,
     key |-> IF "pk" \in DOMAIN interp.inner THEN <<interp.inner.pk>> ELSE <<>>,
     state |-> IF "pk" \in DOMAIN interp.inner THEN <<>>
               ELSE <<NodeEvaluationState(interp.inner, 0, 0)>>,
     status |-> "Running", items |-> <<>>]

\* one step of Iter::next: the node on top of the evaluation state is run
\* against the top of the stack; once no node is left the key of a key
\* spend is checked, and then the stack has to be exactly one satisfied
\* element
iter_next(it) ==
    LET st == it.stack
        n == Len(st)
        top == st[n]
        popped == SubSeq(st, 1, n - 1)
        ns == it.state[Len(it.state)]
        rest == SubSeq(it.state, 1, Len(it.state) - 1)
        ms == ns.ms
        abort(kind) ==
            [it EXCEPT !.status = "HaltedErr", !.items = Append(@, Err(kind))]
        go(stack, state) == [it EXCEPT !.stack = stack, !.state = state]
        yield(stack, state, item) ==
            [it EXCEPT !.stack = stack, !.state = state,
                       !.items = Append(@, item)]
        child(i) == NodeEvaluationState(ms.subs[i], 0, 0)
    IN
    IF it.state = <<>> THEN
        IF it.key # <<>> THEN
            IF n = 0 \/ top.elem # "Push" THEN abort("UnexpectedStackEnd")
            ELSE IF verify_sersig(it.pred, it.key[1], top.blob)
            THEN [it EXCEPT !.key = <<>>, !.stack = Append(popped, Satisfied),
                            !.items = Append(@, Ok(PublicKey(it.key[1])))]
            ELSE abort("PkEvaluationError")
        ELSE IF st = <<Satisfied>> THEN [it EXCEPT !.status = "HaltedOk"]
        ELSE abort("ScriptSatisfactionError")
    ELSE
    CASE ms.node = "1" -> go(Append(st, Satisfied), rest)
      [] ms.node = "0" -> go(Append(st, Dissatisfied), rest)
      [] ms.node = "pk_k" ->
            IF n = 0 THEN abort("UnexpectedStackEnd")
            ELSE IF top = Dissatisfied THEN go(st, rest)
            ELSE IF top = Satisfied \/ "sig" \notin DOMAIN top.blob.data
            THEN abort("PkEvaluationError")
            ELSE IF verify_sersig(it.pred, ms.pks[1], top.blob)
            THEN yield(Append(popped, Satisfied), rest, Ok(PublicKey(ms.pks[1])))
            ELSE yield(Append(popped, Dissatisfied), rest,
                       ErrInfo("InvalidEcdsaSignature", PkToString(ms.pks[1])))
      [] ms.node = "older" ->
            IF it.age >= ms.k
            THEN yield(Append(st, Satisfied), rest, Ok(RelativeTimelock(ms.k)))
            ELSE yield(Append(st, Dissatisfied), rest,
                       ErrInfo("RelativeLocktimeNotMet", NumToString(ms.k)))
      [] ms.node = "c" -> go(st, Append(rest, child(1)))
      [] ms.node = "v" ->
            IF ns.n_evaluated = 0
            THEN go(st, rest \o <<NodeEvaluationState(ms, 1, 0), child(1)>>)
            ELSE IF n = 0 THEN abort("UnexpectedStackEnd")
            ELSE IF top = Satisfied THEN go(popped, rest)
            ELSE abort("VerifyFailed")
      [] ms.node = "and_v" -> go(st, rest \o <<child(2), child(1)>>)
      [] ms.node = "or_i" ->
            IF n = 0 THEN abort("UnexpectedStackEnd")
            ELSE IF top = Dissatisfied THEN go(popped, Append(rest, child(2)))
            ELSE IF top = Satisfied THEN go(popped, Append(rest, child(1)))
            ELSE abort("UnexpectedStackElementPush")
      [] ms.node = "multi" ->
            LET keys == Len(ms.pks)
                again(sat) ==
                    Append(rest, NodeEvaluationState(ms, ns.n_evaluated + 1,
                                                     ns.n_satisfied + sat))
            IN
            IF ns.n_evaluated = 0 THEN
                IF n < ms.k + 1 THEN abort("InsufficientSignaturesMultiSig")
                ELSE IF top = Dissatisfied THEN
                    IF \A i \in (n - ms.k)..n : st[i] = Dissatisfied
                    THEN go(Append(SubSeq(st, 1, n - ms.k - 1), Dissatisfied), rest)
                    ELSE abort("MultiSigEvaluationError")
                ELSE IF st[n - ms.k] # Dissatisfied
                THEN abort("MissingExtraZeroMultiSig")
                ELSE go(st, again(0))
            ELSE IF ns.n_satisfied = ms.k THEN
                IF n > 0 /\ top = Dissatisfied THEN go(Append(popped, Satisfied), rest)
                ELSE abort("MissingExtraZeroMultiSig")
            ELSE IF ns.n_evaluated = keys + 1 THEN abort("MultiSigEvaluationError")
            ELSE IF n = 0 THEN abort("UnexpectedStackEnd")
            ELSE IF top.elem # "Push" THEN abort("UnexpectedStackBoolean")
            ELSE IF verify_sersig(it.pred, ms.pks[keys + 1 - ns.n_evaluated], top.blob)
            THEN yield(popped, again(1),
                       Ok(PublicKey(ms.pks[keys + 1 - ns.n_evaluated])))
            ELSE go(st, again(0))

\* the iterator driven to its end, as a caller's for loop drives it
RECURSIVE RunIter(_)
RunIter(it) ==
    IF it.status # "Running" THEN it ELSE RunIter(Apply(iter_next, it))

(***************************************************************************)
(* The inputs the operations are called with.                              *)
(***************************************************************************)
\* the keys: NumKeys compressed ones and one uncompressed
Pks == {Pk(x, TRUE) : x \in 1..NumKeys} \cup {Pk(1, FALSE)}

RECURSIVE SeqsOfLen(_, _)
SeqsOfLen(S, n) ==
    IF n = 0 THEN {<<>>}
    ELSE {Append(q, x) : q \in SeqsOfLen(S, n - 1), x \in S}

KeyLists == UNION {SeqsOfLen(Pks, n) : n \in 0..MaxMultiKeys}

\* every fragment tree of exactly n nodes, well typed or not; a multi counts
\* one node per key
RECURSIVE FragsOfWeight(_)
FragsOfWeight(n) ==
    IF n <= 0 THEN {}
    ELSE
        (IF n = 1
         THEN {False, True} \cup {PkK(pk) : pk \in Pks}
                \cup {Older(t) : t \in 0..MaxLock}
         ELSE IF n - 1 <= MaxMultiKeys
         THEN {Multi(k, pks) : k \in 0..n, pks \in SeqsOfLen(Pks, n - 1)}
         ELSE {})
        \cup {Check(x) : x \in FragsOfWeight(n - 1)}
        \cup {Verify(x) : x \in FragsOfWeight(n - 1)}
        \cup UNION {{AndV(x, y) : x \in FragsOfWeight(i), y \in FragsOfWeight(n - 1 - i)}
                        : i \in 1..(n - 2)}
        \cup UNION {{OrI(x, y) : x \in FragsOfWeight(i), y \in FragsOfWeight(n - 1 - i)}
                        : i \in 1..(n - 2)}

AllFrags == UNION {FragsOfWeight(n) : n \in 1..MaxNodes}

\* the values of type Miniscript<Pk, Segwitv0>
Miniscripts == {f \in AllFrags : IsMiniscript(f)}

\* the string of a fragment with every wrapper and every combinator spelled
\* out, the other way to write what MsToString writes with pk(), t:, l:, u:
RECURSIVE RawToString(_)
RawToString(ms) ==
    IF ms.node \in {"c", "v"} THEN
        <<ms.node>>
            \o (IF ms.subs[1].node \in {"c", "v"} THEN <<>> ELSE <<":">>)
            \o RawToString(ms.subs[1])
    ELSE IF ms.node = "and_v" THEN
        Call(<<"a", "n", "d", "_", "v">>,
             <<RawToString(ms.subs[1]), RawToString(ms.subs[2])>>)
    ELSE IF ms.node = "or_i" THEN
        Call(<<"o", "r", "_", "i">>,
             <<RawToString(ms.subs[1]), RawToString(ms.subs[2])>>)
    ELSE MsToString(ms)

\* what stands between the parentheses of the root
WshArgStrings ==
    {MsToString(f) : f \in AllFrags}
        \cup {RawToString(f) : f \in AllFrags}
        \cup {SortedMultiVec_to_string(Smv(k, pks)) :
                k \in 0..(MaxMultiKeys + 1), pks \in KeyLists}
        \cup {<<>>, <<"l", ":", "0">>, <<"x", ":", "1">>, <<"v", ":", "c", ":", "1">>,
              <<"o", "l", "d", "e", "r", "(", "0", "1", ")">>,
              SORTEDMULTI, <<"1", ",", "1">>}

WpkhArgStrings ==
    {PkToString(pk) : pk \in Pks}
        \cup {<<>>, <<"0", "2">>, <<"0", "3", "a">>, <<"0", "2", "a", ",", "0", "2", "b">>,
              <<"p", "k", "(", "0", "2", "a", ")">>}

RootNames ==
    {ELMTS_STR \o WSH, WSH, ELMTS_STR \o WPKH, WPKH, <<"e", "l", "s", "h">>}

\* descriptor bodies: well formed ones, then a root without parentheses, an
\* unclosed one and one with a parenthesis too many
Bodies(ArgStrings) ==
    LET wf == {Call(r, <<a>>) : r \in RootNames, a \in ArgStrings} IN
    wf \cup RootNames
       \cup {SubSeq(b, 1, Len(b) - 1) : b \in {Call(r, <<<<"1">>>>) : r \in RootNames}}
       \cup {Append(b, ")") : b \in {Call(r, <<<<"1">>>>) : r \in RootNames}}

\* s with the p-th character of its checksum replaced by another one
Corrupt(s, p) ==
    LET i == Len(s) - 8 + p
        c == IndexOf(CHECKSUM_CHARSET, s[i], 1)
    IN  [s EXCEPT ![i] = CHECKSUM_CHARSET[(c % 32) + 1]]

WithChecksum(b) == b \o <<"#">> \o desc_checksum(b).val

\* the strings given to from_str: every body bare and with its checksum,
\* with a checksum that is wrong in one place, and with a truncated checksum
InputStrings(ArgStrings) ==
    LET B == Bodies(ArgStrings) IN
    B \cup {WithChecksum(b) : b \in B}
      \cup {Corrupt(WithChecksum(b), 1 + (Len(b) % 8)) : b \in B}
      \cup {SubSeq(WithChecksum(b), 1, Len(b) + 8) : b \in RootNames}

WshStrings == InputStrings(WshArgStrings)

WpkhStrings == InputStrings(WpkhArgStrings)

\* the satisfiers given to get_satisfaction and get_satisfaction_mall
Satisfiers ==
    {[sigs |-> K, siglen |-> n, older |-> b] :
        K \in SUBSET Pks, n \in SigLens, b \in BOOLEAN}

\* the closures given to translate_pk
Translators ==
    {[kind |-> "rename", at |-> 0], [kind |-> "uncompress", at |-> 0]}
        \cup {[kind |-> "fail", at |-> j] : j \in 0..NumKeys}

\* the trees given to from_tree and from_inner_tree
InputTrees(ArgStrings) ==
    {TreeFromStr(b).val : b \in {c \in Bodies(ArgStrings) : TreeFromStr(c).ok}}

WshTrees == InputTrees(WshArgStrings)

WpkhTrees == InputTrees(WpkhArgStrings)

(***************************************************************************)
(* The program: it holds at most one descriptor.  From the idle state it   *)
(* calls one constructor or parser, whose Result it keeps in ret and, when *)
(* Ok, in desc; on a descriptor it calls the read-only methods; it drops   *)
(* the descriptor to become idle again.  With the spend data that          *)
(* get_satisfaction returned it may build an interpreter, kept in ret, and *)
(* an iterator over it, kept in iter, which it drives step by step; it     *)
(* calls nothing else until it drops them.                                 *)
(***************************************************************************)
Idle == op = "init"

InterpreterOps == {"from_txdata", "iter_custom", "next"}

Construct(name, input, result) ==
    /\ op \notin InterpreterOps
    /\ op' = name
    /\ arg' = input
    /\ ret' = result
    /\ desc' = IF result.ok THEN result.val ELSE None
    /\ UNCHANGED iter

Query(name, input, result) ==
    /\ op \notin InterpreterOps
    /\ op' = name
    /\ arg' = input
    /\ ret' = result
    /\ UNCHANGED <<desc, iter>>

WshNew ==
    /\ Idle
    /\ \E ms \in Miniscripts : Construct("Wsh::new", ms, Wsh_new(ms))

WshNewSortedMulti ==
    /\ Idle
    /\ \E k \in 0..(MaxMultiKeys + 1), pks \in KeyLists :
        Construct("Wsh::new_sortedmulti", <<k, pks>>, Wsh_new_sortedmulti(k, pks))

WshFromStr ==
    /\ Idle
    /\ \E s \in WshStrings : Construct("Wsh::from_str", s, Wsh_from_str(s))

WshFromTree ==
    /\ Idle
    /\ \E t \in WshTrees : Construct("Wsh::from_tree", t, Wsh_from_tree(t))

WshFromInnerTree ==
    /\ Idle
    /\ \E t \in WshTrees :
        Construct("Wsh::from_inner_tree", t, Wsh_from_inner_tree(t))

WpkhNew ==
    /\ Idle
    /\ \E pk \in Pks : Construct("Wpkh::new", pk, Wpkh_new(pk))

WpkhFromStr ==
    /\ Idle
    /\ \E s \in WpkhStrings : Construct("Wpkh::from_str", s, Wpkh_from_str(s))

WpkhFromTree ==
    /\ Idle
    /\ \E t \in WpkhTrees : Construct("Wpkh::from_tree", t, Wpkh_from_tree(t))

WpkhFromInnerTree ==
    /\ Idle
    /\ \E t \in WpkhTrees :
        Construct("Wpkh::from_inner_tree", t, Wpkh_from_inner_tree(t))

Display ==
    /\ desc # None
    /\ Query("to_string", <<>>, IF IsWsh(desc) THEN Wsh_fmt(desc) ELSE Wpkh_fmt(desc))

ScriptPubkey ==
    /\ desc # None
    /\ Query("script_pubkey", <<>>,
          IF IsWsh(desc) THEN Wsh_script_pubkey(desc) ELSE Wpkh_script_pubkey(desc))

GetAddress ==
    /\ desc # None
    /\ \E blinder \in Blinders, params \in AddressParams :
        Query("address", <<blinder, params>>,
              IF IsWsh(desc) THEN Wsh_address(desc, blinder, params)
              ELSE Wpkh_address(desc, blinder, params))

InnerScript ==
    /\ desc # None
    /\ Query("inner_script", <<>>,
          IF IsWsh(desc) THEN Wsh_inner_script(desc) ELSE Wpkh_inner_script(desc))

EcdsaSighashScriptCode ==
    /\ desc # None
    /\ Query("ecdsa_sighash_script_code", <<>>,
          IF IsWsh(desc) THEN Wsh_ecdsa_sighash_script_code(desc)
          ELSE Wpkh_ecdsa_sighash_script_code(desc))

MaxSatisfactionWeight ==
    /\ desc # None
    /\ Query("max_satisfaction_weight", <<>>,
          IF IsWsh(desc) THEN Wsh_max_satisfaction_weight(desc)
          ELSE Ok(Wpkh_max_satisfaction_weight(desc)))

\* faulty variant of sanity_check: the descriptor is kept only when the
\* check passes
SanityCheck_consuming ==
    /\ desc # None
    /\ Construct("sanity_check", <<>>,
                 LET r == IF IsWsh(desc) THEN Wsh_sanity_check(desc)
                          ELSE Wpkh_sanity_check(desc)
                 IN  IF r.ok THEN Ok(desc) ELSE r)

SanityCheck ==
    /\ desc # None
    /\ Query("sanity_check", <<>>,
             IF IsWsh(desc) THEN Wsh_sanity_check(desc)
             ELSE Wpkh_sanity_check(desc))

TranslatePk ==
    /\ desc # None
    /\ \E t \in Translators :
          Query("translate_pk", t,
                IF IsWsh(desc) THEN Wsh_translate_pk(desc, t)
                ELSE Wpkh_translate_pk(desc, t))

AsInner ==
    /\ desc # None
    /\ Query("as_inner", <<>>,
             Ok(IF IsWsh(desc) THEN Wsh_as_inner(desc) ELSE Wpkh_as_inner(desc)))

Clone ==
    /\ desc # None
    /\ Query("clone", <<>>, Ok(Descriptor_clone(desc)))

\* the Wpkh that clone or translate_pk returned becomes the descriptor the
\* later calls are made on
Rebind ==
    /\ op \in {"clone", "translate_pk"}
    /\ ret.ok
    /\ IsWpkh(ret.val)
    /\ op' = "rebind"
    /\ arg' = <<>>
    /\ desc' = ret.val
    /\ UNCHANGED <<ret, iter>>

GetSatisfaction ==
    /\ desc # None
    /\ \E stfr \in Satisfiers :
          Query("get_satisfaction", stfr,
                IF IsWsh(desc) THEN Wsh_get_satisfaction(desc, stfr)
                ELSE Wpkh_get_satisfaction(desc, stfr))

GetSatisfactionMall ==
    /\ desc # None
    /\ \E stfr \in Satisfiers :
          Query("get_satisfaction_mall", stfr,
                IF IsWsh(desc) THEN Wsh_get_satisfaction_mall(desc, stfr)
                ELSE Wpkh_get_satisfaction_mall(desc, stfr))

\* what a spender may do to the witness before the input is checked:
\* nothing, or lose its first element
Tamperings == {"none", "drop_first"}

Tamper(how, witness) ==
    IF how = "drop_first" /\ witness # <<>> THEN Tail(witness) ELSE witness

\* the ages the input is checked at
Ages == {0, MaxLock}

\* Interpreter::from_txdata on the transaction data tx
from_txdata(tx) ==
    Interpreter_from_txdata(tx.spk, tx.script_sig, tx.witness, tx.age)

\* Interpreter::from_txdata on the scriptPubKey of the descriptor and the
\* spend data the last get_satisfaction returned
FromTxdata ==
    /\ desc # None
    /\ op = "get_satisfaction"
    /\ ret.ok
    /\ \E how \in Tamperings, age \in Ages :
          LET spk == IF IsWsh(desc) THEN Wsh_script_pubkey(desc)
                     ELSE Wpkh_script_pubkey(desc)
              witness == Tamper(how, ret.val[1])
              script_sig == ret.val[2]
              tx == [spk |-> spk, script_sig |-> script_sig,
                     witness |-> witness, age |-> age]
          IN  /\ op' = "from_txdata"
              /\ arg' = tx
              /\ ret' = Apply(from_txdata, tx)
              /\ UNCHANGED <<desc, iter>>

\* Interpreter::iter_custom, iter and iter_assume_sigs on the interpreter
IterCustom ==
    /\ op = "from_txdata"
    /\ ret.ok
    /\ \E pred \in Predicates :
          /\ op' = "iter_custom"
          /\ arg' = pred
          /\ iter' = Interpreter_iter_custom(ret.val, pred)
          /\ UNCHANGED <<ret, desc>>

\* faulty variant of the step of the iterator: a halted iterator is started
\* over
IterNext_restarting ==
    /\ op \in {"iter_custom", "next"}
    /\ op' = "next"
    /\ iter' = IF iter.status = "Running" THEN iter_next(iter)
               ELSE iter_next(Interpreter_iter_custom(ret.val, iter.pred))
    /\ UNCHANGED <<arg, ret, desc>>

\* one step of the iterator: a running iterator runs one node, a halted one
\* stays as it is and yields nothing
IterNext ==
    /\ op \in {"iter_custom", "next"}
    /\ op' = "next"
    /\ iter' = IF iter.status = "Running" THEN Apply(iter_next, iter) ELSE iter
    /\ UNCHANGED <<arg, ret, desc>>

Drop ==
    /\ op # "init"
    /\ op' = "init"
    /\ arg' = <<>>
    /\ ret' = None
    /\ desc' = None
    /\ iter' = None

Init ==
    /\ op = "init"
    /\ arg = <<>>
    /\ ret = None
    /\ desc = None
    /\ iter = None

Next ==
    \/ WshNew
    \/ WshNewSortedMulti
    \/ WshFromStr
    \/ WshFromTree
    \/ WshFromInnerTree
    \/ WpkhNew
    \/ WpkhFromStr
    \/ WpkhFromTree
    \/ WpkhFromInnerTree
    \/ Display
    \/ ScriptPubkey
    \/ GetAddress
    \/ InnerScript
    \/ EcdsaSighashScriptCode
    \/ MaxSatisfactionWeight
    \/ SanityCheck
    \/ TranslatePk
    \/ AsInner
    \/ Clone
    \/ Rebind
    \/ GetSatisfaction
    \/ GetSatisfactionMall
    \/ FromTxdata
    \/ IterCustom
    \/ IterNext
    \/ Drop

Spec == Init /\ [][Next]_vars

(***************************************************************************)
(* Properties.                                                             *)
(***************************************************************************)
FromStrOps == {"Wsh::from_str", "Wpkh::from_str"}

\* the descriptor string s without its checksum part
BodyOf(s) ==
    LET h == IndexOf(s, "#", 1) IN
    IF h = 0 THEN s ELSE SubSeq(s, 1, h - 1)

\* C1: the string Display renders for a descriptor is the el-prefixed body,
\* a '#' and the checksum of exactly that body; verify_checksum accepts it
\* and from_str parses it back to the same descriptor.
C1_RoundTrip ==
    op = "to_string" =>
        LET body == ELMTS_STR \o (IF IsWsh(desc)
                                  THEN Wsh_to_string_no_checksum(desc)
                                  ELSE Wpkh_to_string_no_checksum(desc))
        IN  /\ ret.ok
            /\ SubSeq(ret.val, 1, 2) = <<"e", "l">>
            /\ BodyOf(ret.val) = body
            /\ Len(ret.val) = Len(body) + 9
            /\ ret.val[Len(body) + 1] = "#"
            /\ SubSeq(ret.val, Len(body) + 2, Len(ret.val)) = desc_checksum(body).val
            /\ verify_checksum(ret.val) = Ok(body)
            /\ IF IsWsh(desc) THEN Wsh_from_str(ret.val) = Ok(desc)
               ELSE Wpkh_from_str(ret.val) = Ok(desc)

\* a wsh descriptor whose miniscript is written with the l:/u: sugar has been
\* rendered
C1_Witness ==
    /\ op = "to_string"
    /\ IsWshMs(desc)
    /\ desc.ms.node = "or_i"
    /\ ret.ok

\* C2: from_str of a string whose '#' checksum differs from the checksum of
\* its body returns BadChecksum and leaves no descriptor, whatever the body
\* is (a body that would not parse, or has the wrong root, included).
C2_BadChecksum ==
    op \in FromStrOps =>
        LET h == IndexOf(arg, "#", 1)
            body == SubSeq(arg, 1, h - 1)
            given == SubSeq(arg, h + 1, Len(arg))
        IN  (h > 0 /\ desc_checksum(body).ok /\ given # desc_checksum(body).val)
                => (ret = Err("BadChecksum") /\ desc = None)

\* from_str refused, for its checksum alone, a string whose body is a valid
\* wsh descriptor
C2_Witness ==
    /\ op = "Wsh::from_str"
    /\ ret = Err("BadChecksum")
    /\ Len(arg) = Len(BodyOf(arg)) + 9
    /\ Wsh_from_str(BodyOf(arg)).ok

\* C3 as stated: whenever from_str accepts an el-prefixed descriptor string,
\* it also accepts the same string with the el prefix removed.
C3_PrefixOptional ==
    (op \in FromStrOps /\ ret.ok) =>
        LET unprefixed == SubSeq(BodyOf(arg), 3, Len(BodyOf(arg))) IN
        IF op = "Wsh::from_str" THEN Wsh_from_str(unprefixed).ok
        ELSE Wpkh_from_str(unprefixed).ok

\* C3 amended: from_str accepts only el-prefixed root names; the same string
\* without the prefix is refused with Unexpected, and the unprefixed root is
\* recognised by from_inner_tree alone, which then gives the same descriptor.
C3_PrefixRequired ==
    (op \in FromStrOps /\ ret.ok) =>
        LET body == BodyOf(arg)
            unprefixed == SubSeq(body, 3, Len(body))
            top == TreeFromStr(unprefixed)
        IN  /\ SubSeq(body, 1, 2) = ELMTS_STR
            /\ top.ok
            /\ IF op = "Wsh::from_str"
               THEN /\ Wsh_from_str(unprefixed) = Err("Unexpected")
                    /\ Wsh_from_tree(top.val) = Err("Unexpected")
                    /\ Wsh_from_inner_tree(top.val) = ret
               ELSE /\ Wpkh_from_str(unprefixed) = Err("Unexpected")
                    /\ Wpkh_from_tree(top.val) = Err("Unexpected")
                    /\ Wpkh_from_inner_tree(top.val) = ret

\* from_str accepted a bare elwsh(...) string
C3_Witness ==
    /\ op = "Wsh::from_str"
    /\ ret.ok
    /\ arg = BodyOf(arg)
    /\ IsWshMs(desc)

WshMsBuilders ==
    {"Wsh::new", "Wsh::from_str", "Wsh::from_tree", "Wsh::from_inner_tree"}

\* C4: a Wsh holding a miniscript exists only if that miniscript passes the
\* Segwitv0 top-level checks.  Wsh::new returns the error of the checks when
\* they fail; the parsers return the error of parsing the inner miniscript,
\* or else the error of the checks; a failed call leaves no descriptor.
C4_NoPartialDescriptor ==
    /\ IsWshMs(desc) => (IsMiniscript(desc.ms) /\ top_level_checks(desc.ms).ok)
    /\ op \in WshMsBuilders =>
        /\ ret.ok => (desc = ret.val /\ IsWsh(desc))
        /\ ~ret.ok => desc = None
    /\ op = "Wsh::new" =>
        ret = (IF top_level_checks(arg).ok THEN Ok(WshMs(arg))
               ELSE top_level_checks(arg))
    /\ (/\ op \in {"Wsh::from_tree", "Wsh::from_inner_tree"}
        /\ arg.name = (IF op = "Wsh::from_tree" THEN ELMTS_STR \o WSH ELSE WSH)
        /\ Len(arg.args) = 1
        /\ arg.args[1].name # SORTEDMULTI) =>
            LET sub == MsFromTree(arg.args[1]) IN
            ret = (IF ~sub.ok THEN sub
                   ELSE IF ~top_level_checks(sub.val).ok
                   THEN top_level_checks(sub.val)
                   ELSE Ok(WshMs(sub.val)))

\* Wsh::new was given a miniscript that fails the top-level checks
C4_Witness ==
    /\ op = "Wsh::new"
    /\ ~top_level_checks(arg).ok
    /\ ~ret.ok
    /\ desc = None

WpkhBuilders ==
    {"Wpkh::new", "Wpkh::from_str", "Wpkh::from_tree", "Wpkh::from_inner_tree"}

\* what C5 expects of a wpkh constructor that got as far as the key pk
WpkhOutcome(pk) ==
    IF pk.compressed THEN Ok(Wpkh(pk))
    ELSE ErrInfo("ContextError.CompressedOnly", PkToString(pk))

\* C5: Wpkh::new returns ContextError(CompressedOnly(key)) for an
\* uncompressed key and Ok for a compressed one; the parsers do the same with
\* the key they read; no wpkh descriptor holds an uncompressed key.
C5_CompressedOnly ==
    /\ IsWpkh(desc) => desc.pk.compressed
    /\ op = "Wpkh::new" => ret = WpkhOutcome(arg)
    /\ (/\ op \in {"Wpkh::from_tree", "Wpkh::from_inner_tree"}
        /\ arg.name = (IF op = "Wpkh::from_tree" THEN ELMTS_STR \o WPKH ELSE WPKH)
        /\ Len(arg.args) = 1
        /\ TerminalPk(arg.args[1]).ok) =>
            ret = WpkhOutcome(TerminalPk(arg.args[1]).val)
    /\ (op = "Wpkh::from_str" /\ verify_checksum(arg).ok
          /\ \E pk \in Pks :
                verify_checksum(arg).val
                    = Call(ELMTS_STR \o WPKH, <<PkToString(pk)>>)) =>
            \E pk \in Pks :
                /\ verify_checksum(arg).val
                    = Call(ELMTS_STR \o WPKH, <<PkToString(pk)>>)
                /\ ret = WpkhOutcome(pk)
    /\ op \in WpkhBuilders => (~ret.ok => desc = None)

\* Wpkh::from_str refused a descriptor string over an uncompressed key
C5_Witness ==
    /\ op = "Wpkh::from_str"
    /\ ~ret.ok
    /\ ret.err.kind = "ContextError.CompressedOnly"
    /\ ret.err.info = PkToString(Pk(1, FALSE))
    /\ desc = None

\* C6: script_pubkey() is OP_0 and a push of the 20-byte hash160 of the key
\* for wpkh, and OP_0 and a push of the 32-byte sha256 of inner_script() for
\* wsh, with a miniscript or a sortedmulti inside.
C6_ScriptPubkeyForm ==
    op = "script_pubkey" =>
        /\ Len(ret) = 3
        /\ ret[1] = Op(0)
        /\ IF IsWpkh(desc)
           THEN /\ ret[2] = Op(20)
                /\ ret[3] = [data |-> [hash160 |-> PkBytes(desc.pk)], len |-> 20]
                /\ ScriptLen(ret) = 22
           ELSE /\ ret[2] = Op(32)
                /\ ret[3] = [data |-> [sha256 |-> Wsh_inner_script(desc)], len |-> 32]
                /\ ScriptLen(ret) = 34

\* the scriptPubKey of a wpkh descriptor has been computed
C6_Witness ==
    /\ op = "script_pubkey"
    /\ IsWpkh(desc)
    /\ ret[2] = Op(20)

\* C7: the scriptPubKey of the address of a descriptor is the descriptor's
\* script_pubkey(), for every address parameter set and with or without a
\* blinding key.
C7_AddressDeterminism ==
    op = "address" =>
        /\ ret.params = arg[2]
        /\ ret.blinding_pubkey = arg[1]
        /\ Address_script_pubkey(ret)
            = (IF IsWsh(desc) THEN Wsh_script_pubkey(desc)
               ELSE Wpkh_script_pubkey(desc))

\* the blinded Liquid address of a wsh(sortedmulti) descriptor has been
\* computed
C7_Witness ==
    /\ op = "address"
    /\ IsWshSortedMulti(desc)
    /\ arg[1] # <<>>
    /\ arg[2] = "LIQUID"

\* the pay-to-pubkey-hash script over the key pk
P2pkhScript(pk) ==
    <<Op(118), Op(169), Op(20),
      [data |-> [hash160 |-> PkBytes(pk)], len |-> 20],
      Op(136), Op(172)>>

\* the witness-v0 key-hash program over the key pk
P2wpkhScript(pk) ==
    <<Op(0), Op(20), [data |-> [hash160 |-> PkBytes(pk)], len |-> 20]>>

\* C8 as stated: inner_script() is the encoded witness script for wsh, and
\* for wpkh the pay-to-pubkey-hash script, which differs from script_pubkey().
C8_InnerScriptP2pkh ==
    op = "inner_script" =>
        IF IsWsh(desc)
        THEN ret = (IF IsWshMs(desc) THEN encode(desc.ms)
                    ELSE SortedMultiVec_encode(desc.smv))
        ELSE ret = P2pkhScript(desc.pk) /\ ret # Wpkh_script_pubkey(desc)

\* C8 amended: inner_script() is the encoded witness script for wsh, the
\* script whose sha256 script_pubkey() commits to; for wpkh it is the
\* scriptPubKey itself, OP_0 and a push of the 20-byte hash160 of the key.
C8_InnerScript ==
    op = "inner_script" =>
        IF IsWsh(desc)
        THEN /\ ret = (IF IsWshMs(desc) THEN encode(desc.ms)
                       ELSE SortedMultiVec_encode(desc.smv))
             /\ Wsh_script_pubkey(desc)[3].data = [sha256 |-> ret]
        ELSE /\ ret = P2wpkhScript(desc.pk)
             /\ ret = Wpkh_script_pubkey(desc)
             /\ ret # P2pkhScript(desc.pk)

\* inner_script() of a wpkh descriptor has been computed
C8_Witness ==
    /\ op = "inner_script"
    /\ IsWpkh(desc)
    /\ Len(ret) = 3

\* C9: ecdsa_sighash_script_code() is inner_script() for wsh; for wpkh it is
\* 76 a9 14 <20-byte hash160 of the key> 88 ac, not the OP_0 witness program.
C9_SighashScriptCode ==
    op = "ecdsa_sighash_script_code" =>
        IF IsWsh(desc)
        THEN ret = Wsh_inner_script(desc)
        ELSE /\ ret = P2pkhScript(desc.pk)
             /\ ScriptLen(ret) = 25
             /\ ret[1] # Op(0)
             /\ ret # Wpkh_script_pubkey(desc)

\* the script code of a wpkh descriptor has been computed
C9_Witness ==
    /\ op = "ecdsa_sighash_script_code"
    /\ IsWpkh(desc)
    /\ Len(ret) = 6

\* C10: Wsh::max_satisfaction_weight() is 4 + varint_len(script size)
\* + script size + varint_len(number of witness elements) + size of the
\* largest satisfaction; with a miniscript that has no satisfaction it is an
\* error; with a sortedmulti it is never an error.
C10_MaxSatisfactionWeight ==
    (op = "max_satisfaction_weight" /\ IsWsh(desc)) =>
        IF IsWshSortedMulti(desc) THEN
            LET size == ScriptLen(SortedMultiVec_encode(desc.smv))
                k == desc.smv.k
            IN  ret = Ok(4 + varint_len(size) + size + varint_len(2 + k)
                           + (1 + 73 * k))
        ELSE
            LET size == ScriptLen(encode(desc.ms))
                e == ext_data(desc.ms)
            IN  IF e.max_sat_size = NoSat \/ e.max_sat_witness_elems = NoSat
                THEN ~ret.ok
                ELSE ret = Ok(4 + varint_len(size) + size
                                + varint_len(e.max_sat_witness_elems + 1)
                                + e.max_sat_size)

\* the weight of a satisfiable wsh(miniscript) descriptor has been computed
C10_Witness ==
    /\ op = "max_satisfaction_weight"
    /\ IsWshMs(desc)
    /\ ret.ok
    /\ ret.val > 4 + 1 + 1 + 1

\* a wsh descriptor whose miniscript has no satisfaction was asked for its
\* weight
C10_WitnessUnsatisfiable ==
    /\ op = "max_satisfaction_weight"
    /\ IsWshMs(desc)
    /\ ~ret.ok

\* the weight of a scriptSig and a witness: four times the serialized
\* scriptSig and once the serialized witness, length prefixes included
SatisfactionWeight(sat) ==
    4 * (varint_len(ScriptLen(sat[2])) + ScriptLen(sat[2])) + witness_size(sat[1])

MaxWeightOf(d) ==
    IF IsWsh(d) THEN Wsh_max_satisfaction_weight(d)
    ELSE Ok(Wpkh_max_satisfaction_weight(d))

\* C11 as stated: whenever get_satisfaction returns Ok((witness, script_sig)),
\* the weight of that scriptSig and witness is at most
\* max_satisfaction_weight() of the descriptor.  A satisfier whose signature
\* takes 73 bytes with its sighash byte makes the spend data of a wpkh weigh
\* 4 + 1 + 74 + pk_len.
C11_WeightBound ==
    (op = "get_satisfaction" /\ ret.ok) =>
        /\ MaxWeightOf(desc).ok
        /\ SatisfactionWeight(ret.val) <= MaxWeightOf(desc).val

\* C11 amended: whenever get_satisfaction returns Ok((witness, script_sig))
\* and every signature the satisfier supplied takes at most 72 bytes with its
\* sighash byte (73 with its length prefix, what max_satisfaction_weight
\* assumes), the weight of that scriptSig and witness is at most
\* max_satisfaction_weight() of the descriptor, which for a wpkh is
\* 4 + 1 + 73 + pk_len(pk).
C11_WeightBoundShortSigs ==
    (op = "get_satisfaction" /\ ret.ok /\ arg.siglen <= 72) =>
        /\ MaxWeightOf(desc).ok
        /\ SatisfactionWeight(ret.val) <= MaxWeightOf(desc).val
        /\ IsWpkh(desc) => MaxWeightOf(desc).val = 4 + 1 + 73 + pk_len(desc.pk)

\* a wpkh spend with a 72-byte signature, which weighs exactly the bound
C11_Witness ==
    /\ op = "get_satisfaction"
    /\ IsWpkh(desc)
    /\ ret.ok
    /\ arg.siglen = 72
    /\ SatisfactionWeight(ret.val) = Wpkh_max_satisfaction_weight(desc)

SatisfactionOps == {"get_satisfaction", "get_satisfaction_mall"}

ScriptPubkeyOf(d) == IF IsWsh(d) THEN Wsh_script_pubkey(d) ELSE Wpkh_script_pubkey(d)

BindingErrors == {"NonEmptyScriptSig", "IncorrectWScriptHash", "IncorrectWPubkeyHash"}

\* C12: the spend data of get_satisfaction and get_satisfaction_mall binds to
\* the scriptPubKey.  The scriptSig is empty.  For wsh the last witness
\* element is the bytes of inner_script(), whose sha256 is the program of
\* script_pubkey(), and the elements before it are the satisfaction of the
\* inner script; for wpkh the witness is exactly the signature and the
\* serialized key, whose hash160 is the program.  Interpreter::from_txdata on
\* script_pubkey() and this data does not return NonEmptyScriptSig,
\* IncorrectWScriptHash or IncorrectWPubkeyHash.
C12_SpendDataBinds ==
    (op \in SatisfactionOps /\ ret.ok) =>
        LET witness == ret.val[1]
            script_sig == ret.val[2]
            spk == ScriptPubkeyOf(desc)
            interp == Interpreter_from_txdata(spk, script_sig, witness, 0)
            n == Len(witness)
        IN  /\ script_sig = <<>>
            /\ IsWsh(desc) =>
                  /\ n >= 1
                  /\ witness[n] = ScriptBytes(Wsh_inner_script(desc))
                  /\ spk = <<Op(OP_0), Op(32), Sha256(witness[n].data.script)>>
                  /\ LET inner == SubSeq(witness, 1, n - 1)
                         ms == IF IsWshMs(desc) THEN desc.ms
                               ELSE Multi(desc.smv.k, SortPks(desc.smv.pks))
                     IN  inner \in {satisfy(ms, arg).val, satisfy_malleable(ms, arg).val}
            /\ IsWpkh(desc) =>
                  /\ n = 2
                  /\ witness[1] = elementssig_to_rawsig(arg, [sig |-> desc.pk])
                  /\ witness[2] = PkBytes(desc.pk)
                  /\ spk = <<Op(OP_0), Op(20), Hash160(witness[2])>>
            /\ interp.ok \/ interp.err.kind \notin BindingErrors

\* a wsh spend of at least two satisfaction elements that the interpreter
\* accepts as spend data of the scriptPubKey
C12_Witness ==
    /\ op = "get_satisfaction_mall"
    /\ ret.ok
    /\ IsWshMs(desc)
    /\ Len(ret.val[1]) >= 3
    /\ Interpreter_from_txdata(Wsh_script_pubkey(desc), ret.val[2], ret.val[1], 0).ok

\* the run of the interpreter, verifying every signature, over the spend
\* data sat of descriptor d, at an age that meets every timelock when
\* granted is true and none otherwise
SpendRun(d, sat, granted) ==
    LET interp == Interpreter_from_txdata(ScriptPubkeyOf(d), sat[2], sat[1],
                                          IF granted THEN MaxLock ELSE 0)
    IN  IF interp.ok THEN RunIter(Interpreter_iter_custom(interp.val, "verify"))
        ELSE [status |-> "NoInterpreter", items |-> <<>>]

\* C13 as stated: a failing get_satisfaction returns CouldNotSatisfy, a wpkh
\* whose key has no signature yields CouldNotSatisfy, and a wsh never returns
\* a witness that holds only the witness script.
C13_CouldNotSatisfy ==
    (op = "get_satisfaction") =>
        /\ ~ret.ok => ret.err.kind = "CouldNotSatisfy"
        /\ (IsWsh(desc) /\ ret.ok) => Len(ret.val[1]) > 1

\* C13 amended: get_satisfaction never returns Ok with an empty or partial
\* witness: whenever it returns Ok, the witness is not empty, every signature
\* in it is one the satisfier supplied, and the spend data satisfies the
\* script (the interpreter, verifying every signature, ends without an
\* error).  When the satisfier cannot supply what is needed the call returns
\* an error: CouldNotSatisfy for a wsh, MissingSig(pk) for a wpkh whose key has
\* no ECDSA signature.  A wsh returns a witness that holds only the witness
\* script exactly when the script needs no witness element.
C13_NoPartialWitness ==
    (op = "get_satisfaction") =>
        /\ (~ret.ok /\ IsWsh(desc)) => ret.err = Error("CouldNotSatisfy", <<>>)
        /\ IsWpkh(desc) =>
              ret.ok = (desc.pk \in arg.sigs)
        /\ (~ret.ok /\ IsWpkh(desc)) =>
              ret.err = Error("MissingSig", PkToString(desc.pk))
        /\ ret.ok =>
              LET witness == ret.val[1]
                  run == SpendRun(desc, ret.val, arg.older)
              IN  /\ witness # <<>>
                  /\ \A i \in 1..Len(witness) :
                        "sig" \in DOMAIN witness[i].data =>
                            witness[i].data.sig \in arg.sigs
                  /\ run.status = "HaltedOk"
                  /\ \A i \in 1..Len(run.items) : run.items[i].ok
                  /\ (IsWsh(desc) /\ Len(witness) = 1) =>
                        ~\E i \in 1..Len(run.items) :
                            run.items[i].val.constraint = "PublicKey"

\* a 2-of-n sorted multisig whose satisfier signs for one key only: no
\* witness, CouldNotSatisfy
C13_Witness ==
    /\ op = "get_satisfaction"
    /\ IsWshSortedMulti(desc)
    /\ desc.smv.k = 2
    /\ \E i \in 1..Len(desc.smv.pks) : desc.smv.pks[i] \in arg.sigs
    /\ ~ret.ok
    /\ ret.err.kind = "CouldNotSatisfy"

DescKeys(d) ==
    IF IsWpkh(d) THEN <<d.pk>>
    ELSE IF IsWshSortedMulti(d) THEN d.smv.pks
    ELSE KeysOf(d.ms)

\* two fragments that differ in their keys at most
RECURSIVE SameShape(_, _)
SameShape(a, b) ==
    /\ a.node = b.node
    /\ a.k = b.k
    /\ Len(a.pks) = Len(b.pks)
    /\ Len(a.subs) = Len(b.subs)
    /\ \A i \in 1..Len(a.subs) : SameShape(a.subs[i], b.subs[i])

\* what C15 says of a translate_pk call in the current state, the call that
\* ends in the panic of Wpkh::new being allowed or not
TranslateContract(panics) ==
    LET keys == DescKeys(desc)
        q(i) == translatefpk(arg, keys[i])
        failing == {i \in 1..Len(keys) : ~q(i).ok}
        first == CHOOSE i \in failing : \A j \in failing : i <= j
        met == IF failing = {} THEN Len(keys) ELSE first
    IN  /\ ret.calls = [i \in 1..met |-> <<"translatefpk", keys[i]>>]
        /\ failing # {} =>
              /\ ~ret.ok
              /\ "val" \notin DOMAIN ret
              /\ ret.err = q(first).err
        /\ (failing = {} /\ panics /\ IsWpkh(desc) /\ is_uncompressed(q(1).val)) =>
              /\ ~ret.ok
              /\ "val" \notin DOMAIN ret
              /\ ret.panic = "Uncompressed keys in Wpkh"
        /\ (failing = {} /\ ~(panics /\ IsWpkh(desc) /\ is_uncompressed(q(1).val))) =>
              /\ ret.ok
              /\ IsWpkh(desc) => ret.val = Wpkh(q(1).val)
              /\ IsWshSortedMulti(desc) =>
                    /\ IsWshSortedMulti(ret.val)
                    /\ ret.val.smv.k = desc.smv.k
                    /\ ret.val.smv.pks = [i \in 1..Len(keys) |-> q(i).val]
              /\ IsWshMs(desc) =>
                    /\ IsWshMs(ret.val)
                    /\ SameShape(ret.val.ms, desc.ms)
                    /\ KeysOf(ret.val.ms) = [i \in 1..Len(keys) |-> q(i).val]

ExpectedRoot ==
    [ o \in { "Wsh::from_tree", "Wsh::from_inner_tree",
              "Wpkh::from_tree", "Wpkh::from_inner_tree" } |->
        CASE o = "Wsh::from_tree" -> ELMTS_STR \o WSH
          [] o = "Wsh::from_inner_tree" -> WSH
          [] o = "Wpkh::from_tree" -> ELMTS_STR \o WPKH
          [] o = "Wpkh::from_inner_tree" -> WPKH ]

\* C19: each tree parser returns Error::Unexpected, without parsing any
\* argument and without constructing a descriptor, for a root that has not
\* exactly one argument or not the expected name, whatever the arguments are
\* and whatever parsing them would return; under a wsh root an argument named
\* sortedmulti is parsed as a sorted multisig and never as a miniscript.
C19_RootShape ==
    (op \in DOMAIN ExpectedRoot) =>
        /\ ~(arg.name = ExpectedRoot[op] /\ Len(arg.args) = 1) =>
              /\ ret = Err("Unexpected")
              /\ desc = None
        /\ ( /\ op \in {"Wsh::from_tree", "Wsh::from_inner_tree"}
             /\ arg.name = ExpectedRoot[op]
             /\ Len(arg.args) = 1
             /\ arg.args[1].name = SORTEDMULTI ) =>
              LET smv == SortedMultiVec_from_tree(arg.args[1]) IN
              /\ ret.ok = smv.ok
              /\ ~smv.ok => ret = smv /\ desc = None
              /\ smv.ok => desc = WshSortedMulti(smv.val) /\ ~IsWshMs(desc)

\* Wsh::from_inner_tree on a root named elwsh whose one argument is no
\* well-typed miniscript: the answer is about the root, not the argument
C19_Witness ==
    /\ op = "Wsh::from_inner_tree"
    /\ arg.name # WSH
    /\ Len(arg.args) = 1
    /\ ~MsFromTree(arg.args[1]).ok
    /\ MsFromTree(arg.args[1]).err.kind = "TypeCheck"
    /\ ret = Err("Unexpected")
    /\ desc = None

\* the answers of the two satisfaction calls for a descriptor and a satisfier
NonMallOf(d, stfr) ==
    IF IsWsh(d) THEN Wsh_get_satisfaction(d, stfr)
    ELSE Wpkh_get_satisfaction(d, stfr)

MallOf(d, stfr) ==
    IF IsWsh(d) THEN Wsh_get_satisfaction_mall(d, stfr)
    ELSE Wpkh_get_satisfaction_mall(d, stfr)

ItemKinds(it) ==
    [i \in 1..Len(it.items) |->
        IF it.items[i].ok THEN it.items[i].val.constraint
        ELSE it.items[i].err.kind]

Iterating == op \in {"iter_custom", "next"}

Halted == iter.status \in {"HaltedOk", "HaltedErr"}

\* the spend of a 2-of-2 multisig, plain or sorted, with the whole witness
\* on the stack of the interpreter: the dummy element and two signatures
TwoOfTwoSpend ==
    /\ \/ IsWshMs(desc) /\ desc.ms.node = "multi" /\ desc.ms.k = 2
                         /\ Len(desc.ms.pks) = 2
       \/ IsWshSortedMulti(desc) /\ desc.smv.k = 2 /\ Len(desc.smv.pks) = 2
    /\ Len(ret.val.stack) = 3

RECURSIVE NodeSteps(_)
NodeSteps(ns) ==
    LET ms == ns.ms
        sub(i) == NodeSteps(NodeEvaluationState(ms.subs[i], 0, 0))
    IN  CASE ms.node \in {"0", "1", "pk_k", "older"} -> 1
          [] ms.node = "c" -> 1 + sub(1)
          [] ms.node = "v" -> IF ns.n_evaluated = 0 THEN 2 + sub(1) ELSE 1
          [] ms.node \in {"and_v", "or_i"} -> 1 + sub(1) + sub(2)
          [] ms.node = "multi" -> Len(ms.pks) + 2 - ns.n_evaluated

RECURSIVE SumSteps(_)
SumSteps(state) ==
    IF state = <<>> THEN 0 ELSE NodeSteps(Head(state)) + SumSteps(Tail(state))

\* the steps a running iterator can still take: its nodes, the key of a
\* key spend, and the final check
StepsLeft(it) ==
    IF it.status # "Running" THEN 0
    ELSE SumSteps(it.state) + Len(it.key) + 1

\* an iterator at the final check: no node and no key is left to run
AtFinalCheck(it) == it.state = <<>> /\ it.key = <<>>

\* what C17 says of the state reached, kinds being the errors a run that
\* does not halt Ok may end on
IterState(kinds) ==
    Iterating =>
        /\ iter.status \in {"Running", "HaltedOk", "HaltedErr"}
        /\ iter.status = "Running" => ENABLED IterNext
        /\ iter.status = "HaltedOk" =>
              /\ iter.stack = <<Satisfied>>
              /\ AtFinalCheck(iter)
        /\ iter.status = "HaltedErr" =>
              /\ iter.items # <<>>
              /\ ~iter.items[Len(iter.items)].ok
              /\ iter.items[Len(iter.items)].err.kind \in kinds
              /\ (AtFinalCheck(iter) /\ iter.stack # <<Satisfied>>) <=>
                    iter.items[Len(iter.items)] = Err("ScriptSatisfactionError")
        /\ RunIter(iter) = RunIter(Interpreter_iter_custom(ret.val, arg))

\* what C17 says of a step
IterStep ==
    /\ op' = "iter_custom" =>
          /\ iter'.status = "Running"
          /\ iter'.items = <<>>
          /\ iter'.stack = ret.val.stack
    /\ (op' = "next" /\ iter.status = "Running") =>
          /\ StepsLeft(iter') < StepsLeft(iter)
          /\ Len(iter'.state) <= Len(iter.state) + 1
          /\ Len(iter'.items) \in {Len(iter.items), Len(iter.items) + 1}
          /\ SubSeq(iter'.items, 1, Len(iter.items)) = iter.items
    /\ (op' = "next" /\ iter.status # "Running") => iter' = iter

FinalCheckErrors == {"ScriptSatisfactionError", "VerifyFailed"}

InterpreterErrors ==
    FinalCheckErrors \cup
    {"UnexpectedStackEnd", "UnexpectedStackElementPush",
     "UnexpectedStackBoolean", "PkEvaluationError", "MultiSigEvaluationError",
     "InsufficientSignaturesMultiSig", "MissingExtraZeroMultiSig"}

CompressedWpkh(d) ==
    IsWpkh(d) /\ ~is_uncompressed(d.pk) /\ Wpkh_sanity_check(d) = Ok(<<>>)

\* the calls on a Wpkh that hand a Wpkh back to the caller
WpkhReturning == {"clone", "translate_pk"}

\* translate_pk called on a Wpkh with a key function that maps the key to an
\* uncompressed one
UncompressingTranslation ==
    /\ op = "translate_pk"
    /\ IsWpkh(desc)
    /\ translatefpk(arg, desc.pk).ok
    /\ is_uncompressed(translatefpk(arg, desc.pk).val)

\* C21: every Wpkh that exists holds a compressed key and passes
\* sanity_check(), whether it was built by new, from_str, from_tree or
\* from_inner_tree, copied by clone, looked into by as_inner, or returned by
\* translate_pk and used for further calls; a translate_pk whose key
\* function yields an uncompressed key returns neither an error nor a
\* descriptor: it panics with "Uncompressed keys in Wpkh".
C21_WpkhCompressedKey ==
    /\ IsWpkh(desc) => CompressedWpkh(desc)
    /\ (op \in WpkhReturning /\ IsWpkh(desc) /\ ret.ok) => CompressedWpkh(ret.val)
    /\ (op = "sanity_check" /\ IsWpkh(desc)) => ret = Ok(<<>>)
    /\ (op = "as_inner" /\ IsWpkh(desc)) => ret = Ok(desc.pk)
    /\ UncompressingTranslation =>
          /\ ~ret.ok
          /\ DOMAIN ret = {"ok", "panic", "calls"}
          /\ ret.panic = "Uncompressed keys in Wpkh"

\* a Wpkh returned by translate_pk, holding another key than the Wpkh it was
\* made from, is the descriptor in use
C21_Witness ==
    /\ op = "rebind"
    /\ "calls" \in DOMAIN ret
    /\ CompressedWpkh(desc)
    /\ ret.calls[1][2] # desc.pk

\* the key function returned an uncompressed key and the call panicked
C21_WitnessPanic == UncompressingTranslation /\ "panic" \in DOMAIN ret

====
